---- MODULE Spec2Model ----
(***************************************************************************)
(* A model of notation.js (src/src/core/notation.js) and of its glob       *)
(* algebra (src/src/core/notation.glob.js).                                *)
(*                                                                         *)
(* Strings.  A JavaScript string that holds a notation, a glob or an       *)
(* object key is modelled in its lexed form: the sequence of the tokens    *)
(* that reMATCHER cuts it into.  A token is a record [t, k, i]:            *)
(*    t = "key"    an identifier          a        k = "a"                 *)
(*    t = "idx"    a bracketed index      [0]      i = 0                   *)
(*    t = "num"    bare digits            0        i = 0  (an object key   *)
(*                 made from a number; not a valid note)                   *)
(*    t = "star"   the wildcard           *                                *)
(*    t = "istar"  the index wildcard     [*]                              *)
(* joinNotes is concatenation of token sequences (it puts a dot before a   *)
(* token that does not start with a bracket); Chars gives the characters   *)
(* of the joined string where the code compares strings with < and >.      *)
(* A glob string is [neg, notes]: neg is the leading "!".                  *)
(*                                                                         *)
(* Trees.  A value is a record [k, v, e]:                                  *)
(*    k = "map"    e = sequence of [key, val], in Object.keys order        *)
(*    k = "list"   e = sequence of values; a "hole" is an empty slot       *)
(*    k = "num"    a scalar leaf (v)                                       *)
(*    k = "null", "undef"                                                  *)
(*    k = "ref"    inside filter only: the very object that the source     *)
(*                 holds at path e (a shared reference, not a copy)        *)
(***************************************************************************)
EXTENDS Integers, Sequences, FiniteSets, TLC

\* `const v = ...` followed by the code that reads v: F is that code.
With(v, F(_)) == F(v)

\* DEFAULT_OPTS
DEFAULT_OPTS == [strict |-> FALSE, preserveIndices |-> FALSE]

\* The objects given as options: each of the two options is left out, true
\* or false; null and undefined count as an object with neither.
OptionValues ==
    {v \in [hasStrict : BOOLEAN, strict : BOOLEAN,
            hasPreserveIndices : BOOLEAN, preserveIndices : BOOLEAN] :
        (~v.hasStrict => ~v.strict) /\ (~v.hasPreserveIndices => ~v.preserveIndices)}

\* set options(value): the defaults, over them the options held so far (the
\* defaults when none are held yet), over them the ones given.
setOptions(_options, value) ==
    [strict |-> IF value.hasStrict THEN value.strict ELSE _options.strict,
     preserveIndices |-> IF value.hasPreserveIndices THEN value.preserveIndices
                         ELSE _options.preserveIndices]

\* ------------------------------------------------------------- tokens

KeyTok(s) == [t |-> "key", k |-> s, i |-> 0]
IdxTok(n) == [t |-> "idx", k |-> "", i |-> n]
NumTok(n) == [t |-> "num", k |-> "", i |-> n]
StarTok == [t |-> "star", k |-> "*", i |-> 0]
IStarTok == [t |-> "istar", k |-> "", i |-> 0]

\* The characters (code units) of the identifiers the model uses.
IdentChars(s) ==
    CASE s = "a" -> <<97>>
      [] s = "b" -> <<98>>
      [] s = "c" -> <<99>>
      [] s = "x" -> <<120>>
      [] s = "y" -> <<121>>
      [] s = "id" -> <<105, 100>>
      [] s = "age" -> <<97, 103, 101>>
      [] s = "car" -> <<99, 97, 114>>
      [] s = "name" -> <<110, 97, 109, 101>>
      [] s = "model" -> <<109, 111, 100, 101, 108>>
      [] s = "__proto__" -> <<95, 95, 112, 114, 111, 116, 111, 95, 95>>
      [] s = "prototype" -> <<112, 114, 111, 116, 111, 116, 121, 112, 101>>
      [] s = "prototypes" -> <<112, 114, 111, 116, 111, 116, 121, 112, 101, 115>>
      [] s = "constructor" -> <<99, 111, 110, 115, 116, 114, 117, 99, 116, 111, 114>>
      [] OTHER -> <<122>>

\* The characters of one token as it is written in a notation string.
TokChars(tok) ==
    CASE tok.t = "key" -> IdentChars(tok.k)
      [] tok.t = "idx" -> <<91, 48 + tok.i, 93>>
      [] tok.t = "num" -> <<48 + tok.i>>
      [] tok.t = "star" -> <<42>>
      [] OTHER -> <<91, 42, 93>>

RECURSIVE JoinChars(_, _)
JoinChars(notes, n) ==
    IF n > Len(notes) THEN <<>>
    ELSE LET cur == TokChars(notes[n])
             dot == IF n < Len(notes) /\ notes[n + 1].t \notin {"idx", "istar"}
                    THEN <<46>> ELSE <<>>
         IN  cur \o dot \o JoinChars(notes, n + 1)

\* utils.joinNotes, as the characters of the string it returns.
Chars(notes) == JoinChars(notes, 1)

RECURSIVE LexLess(_, _)
\* s < t on JavaScript strings (code unit order).
LexLess(s, t) ==
    IF t = <<>> THEN FALSE
    ELSE IF s = <<>> THEN TRUE
    ELSE IF Head(s) # Head(t) THEN Head(s) < Head(t)
    ELSE LexLess(Tail(s), Tail(t))

\* reVALIDATOR of notation.js: every token is an identifier or a bracketed
\* index (quoted keys are outside the model's alphabet).
IsValid(notation) ==
    /\ Len(notation) > 0
    /\ \A n \in 1..Len(notation) : notation[n].t \in {"key", "idx"}

\* Notation.parent: the notation without its last note (<<>> stands for null).
Parent(notation) == SubSeq(notation, 1, Len(notation) - 1)

\* utils.normalizeNote: an index note gives a number, any other note its key.
NormNum(n) == [num |-> TRUE, s |-> <<>>, n |-> n]
NormStr(s) == [num |-> FALSE, s |-> s, n |-> 0]
normalizeNote(note) == IF note.t = "idx" THEN NormNum(note.i) ELSE NormStr(<<note>>)

\* The property key JavaScript makes of a normalized note: String(n) for a number.
PropKey(nn) == IF nn.num THEN <<NumTok(nn.n)>> ELSE nn.s

\* -------------------------------------------------------------- trees

Num(n) == [k |-> "num", v |-> n, e |-> <<>>]
Null == [k |-> "null", v |-> 0, e |-> <<>>]
Undef == [k |-> "undef", v |-> 0, e |-> <<>>]
Hole == [k |-> "hole", v |-> 0, e |-> <<>>]
Map(entries) == [k |-> "map", v |-> 0, e |-> entries]
List(items) == [k |-> "list", v |-> 0, e |-> items]
Entry(key, val) == [key |-> key, val |-> val]

\* What reading a slot gives: an empty slot reads as undefined.
Read(x) == IF x.k = "hole" THEN Undef ELSE x

\* utils.type
type(o) ==
    CASE o.k = "map" -> "object"
      [] o.k = "list" -> "array"
      [] o.k = "num" -> "number"
      [] o.k = "null" -> "null"
      [] OTHER -> "undefined"

isCollection(o) == o.k \in {"map", "list"}

\* utils.isset
isset(o) == o.k \notin {"undef", "hole", "null"}

\* The position of a key among a map's entries, 0 when it has none.
KeyPos(entries, key) ==
    LET hits == {n \in 1..Len(entries) : entries[n].key = key}
    IN  IF hits = {} THEN 0 ELSE CHOOSE n \in hits : TRUE

\* utils.hasOwn(collection, keyOrIndex, _collectionType): an own member of
\* the collection, which is a key of a map for a string and an index of a
\* list that holds an item for a number; an index that was emptied, or never
\* filled, is no own member.
hasOwn(coll, nn) ==
    IF nn.num
    THEN coll.k = "list" /\ nn.n >= 0 /\ nn.n < Len(coll.e) /\ coll.e[nn.n + 1] # Hole
    ELSE coll.k = "map" /\ KeyPos(coll.e, nn.s) > 0

\* collection[key], for a key that hasOwn found.
Member(coll, nn) ==
    IF coll.k = "list" THEN Read(coll.e[nn.n + 1])
    ELSE coll.e[KeyPos(coll.e, nn.s)].val

RECURSIVE Holes(_)
Holes(n) == IF n <= 0 THEN <<>> ELSE <<Hole>> \o Holes(n - 1)

\* Object.keys order: integer keys first, ascending; then insertion order.
IsIntKey(key) == Len(key) = 1 /\ key[1].t = "num"
InsertPos(entries, key) ==
    IF ~IsIntKey(key) THEN Len(entries) + 1
    ELSE LET later == {n \in 1..Len(entries) :
                          ~IsIntKey(entries[n].key) \/ entries[n].key[1].i > key[1].i}
         IN  IF later = {} THEN Len(entries) + 1
             ELSE CHOOSE n \in later : \A m \in later : n <= m

\* The value put at the end of the list, whatever the position.
InsertAt_atEnd(s, pos, x) == Append(s, x)
InsertAt(s, pos, x) == SubSeq(s, 1, pos - 1) \o <<x>> \o SubSeq(s, pos, Len(s))
RemoveAt(s, pos) == SubSeq(s, 1, pos - 1) \o SubSeq(s, pos + 1, Len(s))

\* collection[key] = value on a map or a list.
Assign(coll, nn, value) ==
    IF coll.k = "list"
    THEN IF nn.n < Len(coll.e)
         THEN List([coll.e EXCEPT ![nn.n + 1] = value])
         ELSE List(coll.e \o Holes(nn.n - Len(coll.e)) \o <<value>>)
    ELSE LET key == PropKey(nn)
             pos == KeyPos(coll.e, key)
         IN  IF pos > 0
             THEN Map([coll.e EXCEPT ![pos] = Entry(key, value)])
             ELSE Map(InsertAt(coll.e, InsertPos(coll.e, key), Entry(key, value)))

\* ----------------------------------------------------------- accessor

\* Resolution of a notation, one note at a time; stop is the value at which
\* the walk ended (the container that lacks the next note).
RECURSIVE Walk(_, _, _)
Walk(level, notes, n) ==
    IF n > Len(notes)
    THEN [has |-> TRUE, value |-> level, level |-> Len(notes), stop |-> level]
    ELSE IF hasOwn(level, normalizeNote(notes[n]))
         THEN Walk(Member(level, normalizeNote(notes[n])), notes, n + 1)
         ELSE [has |-> FALSE, value |-> Undef, level |-> n, stop |-> level]

\* Notation#inspectGet.  On full resolution `parent` is the resolved value
\* itself, so the code falls back to the source for parentIsArray.
inspectGet(source, notation) ==
    IF ~IsValid(notation)
    THEN [err |-> "InvalidSyntax", has |-> FALSE, value |-> Undef, type |-> "undefined",
          level |-> 0, parentIsArray |-> FALSE]
    ELSE With(Walk(source, notation, 1), LAMBDA w :
             LET parent == IF w.has \/ w.stop.k = "undef" THEN source ELSE w.stop
             IN  [err |-> "none", has |-> w.has, value |-> w.value,
                  type |-> IF w.has THEN type(w.value) ELSE "undefined",
                  level |-> w.level, parentIsArray |-> type(parent) = "array"])

\* Notation#has
has(source, notation) == inspectGet(source, notation).has

\* A get that takes no notice of a default value in strict mode.
get_strictAlways(source, strict, notation, hasDefault, defaultValue) ==
    With(inspectGet(source, notation), LAMBDA result :
        IF result.err # "none" THEN [err |-> result.err, value |-> Undef]
        ELSE IF strict /\ ~result.has
        THEN [err |-> IF result.parentIsArray THEN "MissingIndex" ELSE "MissingProperty",
              value |-> Undef]
        ELSE [err |-> "none", value |-> IF result.has THEN result.value ELSE defaultValue])

\* Notation#get(notation, defaultValue); hasDefault tells whether the call
\* passed a second argument.
get(source, strict, notation, hasDefault, defaultValue) ==
    With(inspectGet(source, notation), LAMBDA result :
        IF result.err # "none" THEN [err |-> result.err, value |-> Undef]
        ELSE IF strict /\ ~hasDefault /\ ~result.has
        THEN [err |-> IF result.parentIsArray THEN "MissingIndex" ELSE "MissingProperty",
              value |-> Undef]
        ELSE [err |-> "none", value |-> IF result.has THEN result.value ELSE defaultValue])

\* level[nCurrentNote] = value, which fails (TypeError: the module is strict
\* mode code) when level is a scalar, null or undefined.
canAssign(level) == isCollection(level)

\* The empty collection set puts at an absent intermediate note
\* (nextIsArrayNote ? [] : {}).
emptyFor(nextIsArrayNote) == IF nextIsArrayNote THEN List(<<>>) ELSE Map(<<>>)

RECURSIVE setWalk(_, _, _, _, _)
\* The callback of Notation#set for note n, with the rest of the walk done
\* on the level it moves to.  Returns the level as it is left, and the error.
setWalk(level, notes, n, value, mode) ==
    LET currentIsLast == n = Len(notes)
        nCurrentNote == normalizeNote(notes[n])
        nextIsArrayNote == ~currentIsLast /\ normalizeNote(notes[n + 1]).num
    IN  IF type(level) = "array" /\ ~nCurrentNote.num
        THEN [t |-> level, err |-> "TypeMismatch"]
        ELSE IF hasOwn(level, nCurrentNote)
        THEN IF currentIsLast
             THEN CASE mode = "overwrite" ->
                         [t |-> Assign(level, nCurrentNote, value), err |-> "none"]
                    [] mode = "insert" ->
                         IF type(level) = "array"
                         THEN [t |-> List(InsertAt(level.e, nCurrentNote.n + 1, value)),
                               err |-> "none"]
                         ELSE [t |-> level, err |-> "InsertOnNonList"]
                    [] OTHER -> [t |-> level, err |-> "none"]
             ELSE LET r == setWalk(Member(level, nCurrentNote), notes, n + 1, value, mode)
                  IN  [t |-> IF isCollection(r.t) THEN Assign(level, nCurrentNote, r.t)
                             ELSE level,
                       err |-> r.err]
        ELSE IF currentIsLast /\ type(level) # "array" /\ mode = "insert"
        THEN [t |-> level, err |-> "InsertOnNonList"]
        ELSE IF ~canAssign(level)
        THEN [t |-> level, err |-> "TypeError"]
        ELSE IF currentIsLast
        THEN [t |-> Assign(level, nCurrentNote, value), err |-> "none"]
        ELSE LET r == setWalk(emptyFor(nextIsArrayNote), notes, n + 1, value, mode)
             IN  [t |-> Assign(level, nCurrentNote, r.t), err |-> r.err]

\* Notation#set(notation, value, mode): the source as it is left, and the
\* error the call ends with ("none" when it returns).
set(source, notation, value, mode) ==
    IF ~IsValid(notation) THEN [t |-> source, err |-> "InvalidSyntax"]
    ELSE setWalk(source, notation, 1, value, mode)

RECURSIVE ReplaceAt(_, _, _, _)
\* The tree with the object at a resolved notation changed in place.
ReplaceAt(level, notes, n, new) ==
    IF n > Len(notes) THEN new
    ELSE Assign(level, normalizeNote(notes[n]),
                ReplaceAt(Member(level, normalizeNote(notes[n])), notes, n + 1, new))

\* A removal from a list that empties the index in place whatever the
\* preserveIndices option says.
removeMember_inPlace(parent, nn, preserveIndices) ==
    IF parent.k = "list" THEN List([parent.e EXCEPT ![nn.n + 1] = Hole])
    ELSE Map(RemoveAt(parent.e, KeyPos(parent.e, nn.s)))

\* A removal that splices whatever the preserveIndices option says.
removeMember_splice(parent, nn, preserveIndices) ==
    IF parent.k = "list" THEN List(RemoveAt(parent.e, nn.n + 1))
    ELSE Map(RemoveAt(parent.e, KeyPos(parent.e, nn.s)))

\* parent.splice(index, 1) or delete parent[key]
removeMember(parent, nn, preserveIndices) ==
    IF parent.k = "list"
    THEN IF ~preserveIndices THEN List(RemoveAt(parent.e, nn.n + 1))
         ELSE List([parent.e EXCEPT ![nn.n + 1] = Hole])
    ELSE Map(RemoveAt(parent.e, KeyPos(parent.e, nn.s)))

\* Notation#inspectRemove: the result object and the source as it is left.
inspectRemove(source, preserveIndices, notation) ==
    IF ~IsValid(notation)
    THEN [t |-> source, err |-> "InvalidSyntax", has |-> FALSE, value |-> Undef,
          type |-> "undefined", parentIsArray |-> FALSE]
    ELSE With(IF Parent(notation) # <<>>
              THEN get(source, FALSE, Parent(notation), TRUE, Null).value
              ELSE source, LAMBDA parent :
             LET parentNotation == Parent(notation)
                 parentIsArray == type(parent) = "array"
                 lastNoteNormalized == normalizeNote(notation[Len(notation)])
             IN  IF hasOwn(parent, lastNoteNormalized)
                 THEN [t |-> ReplaceAt(source, parentNotation, 1,
                                       removeMember(parent, lastNoteNormalized,
                                                    preserveIndices)),
                       err |-> "none", has |-> TRUE,
                       value |-> Member(parent, lastNoteNormalized),
                       type |-> type(Member(parent, lastNoteNormalized)),
                       parentIsArray |-> parentIsArray]
                 ELSE [t |-> source, err |-> "none", has |-> FALSE, value |-> Undef,
                       type |-> "undefined", parentIsArray |-> parentIsArray])

\* Notation#remove: inspectRemove, and in strict mode an error for a miss.
remove(source, strict, preserveIndices, notation) ==
    With(inspectRemove(source, preserveIndices, notation), LAMBDA result :
        IF result.err = "none" /\ strict /\ ~result.has
        THEN [t |-> result.t,
              err |-> IF result.parentIsArray THEN "MissingIndex" ELSE "MissingProperty"]
        ELSE [t |-> result.t, err |-> result.err])

\* utils.getNewNotation(newNotation, notation): the new notation when one is
\* given, which must be valid, and the notation itself otherwise.
getNewNotation(hasNew, newNotation, notation) ==
    IF ~hasNew THEN [newN |-> notation, err |-> "none"]
    ELSE IF ~IsValid(newNotation) THEN [newN |-> newNotation, err |-> "InvalidSyntax"]
    ELSE [newN |-> newNotation, err |-> "none"]

\* Notation#moveTo(destination, notation, newNotation, overwrite): the source
\* and the destination as they are left.  isSource tells that the destination
\* is the very object the accessor holds, so that the value is set on what
\* the removal left.
moveTo(source, preserveIndices, destination, isSource, notation, hasNew, newNotation, overwrite) ==
    IF ~isCollection(destination)
    THEN [src |-> source, dest |-> destination, err |-> "InvalidDestination"]
    ELSE With(inspectRemove(source, preserveIndices, notation), LAMBDA result :
             With(IF isSource THEN result.t ELSE destination, LAMBDA d :
                 IF result.err # "none" \/ ~result.has
                 THEN [src |-> result.t, dest |-> d, err |-> result.err]
                 ELSE With(getNewNotation(hasNew, newNotation, notation), LAMBDA g :
                          IF g.err # "none"
                          THEN [src |-> result.t, dest |-> d, err |-> g.err]
                          ELSE With(set(d, g.newN, result.value,
                                        IF overwrite THEN "overwrite" ELSE "keep"),
                                    LAMBDA r :
                                        [src |-> IF isSource THEN r.t ELSE result.t,
                                         dest |-> r.t, err |-> r.err]))))

\* Notation#copyTo(destination, notation, newNotation, overwrite): the value
\* read from the source is set on the destination by a new accessor.
\* isSource tells that the destination is the very object the accessor holds.
copyTo(source, destination, isSource, notation, hasNew, newNotation, overwrite) ==
    IF ~isCollection(destination)
    THEN [src |-> source, dest |-> destination, err |-> "InvalidDestination"]
    ELSE With(inspectGet(source, notation), LAMBDA result :
             IF result.err # "none" \/ ~result.has
             THEN [src |-> source, dest |-> destination, err |-> result.err]
             ELSE With(getNewNotation(hasNew, newNotation, notation), LAMBDA g :
                      IF g.err # "none"
                      THEN [src |-> source, dest |-> destination, err |-> g.err]
                      ELSE With(set(destination, g.newN, result.value,
                                    IF overwrite THEN "overwrite" ELSE "keep"),
                                LAMBDA r : [src |-> IF isSource THEN r.t ELSE source,
                                            dest |-> r.t, err |-> r.err])))

\* Notation#copyFrom(target, notation, newNotation, overwrite): the value read
\* from the target by a new accessor is set on the source; the target is left
\* as it is, unless it is the very object the accessor holds (isSource).
copyFrom(source, target, isSource, notation, hasNew, newNotation, overwrite) ==
    IF ~isCollection(target)
    THEN [src |-> source, dest |-> target, err |-> "InvalidDestination"]
    ELSE With(inspectGet(target, notation), LAMBDA result :
             IF result.err # "none" \/ ~result.has
             THEN [src |-> source, dest |-> target, err |-> result.err]
             ELSE With(getNewNotation(hasNew, newNotation, notation), LAMBDA g :
                      IF g.err # "none"
                      THEN [src |-> source, dest |-> target, err |-> g.err]
                      ELSE With(set(source, g.newN, result.value,
                                    IF overwrite THEN "overwrite" ELSE "keep"),
                                LAMBDA r : [src |-> r.t,
                                            dest |-> IF isSource THEN r.t ELSE target,
                                            err |-> r.err])))

\* Notation#moveFrom(target, notation, newNotation, overwrite): the removal is
\* made by a new accessor on the target, with the default options.  isSource
\* tells that the target is the very object the accessor holds, so that the
\* value is set on what the removal left.
moveFrom(source, target, isSource, notation, hasNew, newNotation, overwrite) ==
    IF ~isCollection(target)
    THEN [src |-> source, dest |-> target, err |-> "InvalidDestination"]
    ELSE With(inspectRemove(target, DEFAULT_OPTS.preserveIndices, notation), LAMBDA result :
             With(IF isSource THEN result.t ELSE source, LAMBDA s :
                 IF result.err # "none" \/ ~result.has
                 THEN [src |-> s, dest |-> result.t, err |-> result.err]
                 ELSE With(getNewNotation(hasNew, newNotation, notation), LAMBDA g :
                          IF g.err # "none"
                          THEN [src |-> s, dest |-> result.t, err |-> g.err]
                          ELSE With(set(s, g.newN, result.value,
                                        IF overwrite THEN "overwrite" ELSE "keep"),
                                    LAMBDA r :
                                        [src |-> r.t,
                                         dest |-> IF isSource THEN r.t ELSE result.t,
                                         err |-> r.err]))))

\* Notation#rename(notation, newNotation, overwrite):
\* this.moveTo(this._source, notation, newNotation, overwrite), where an
\* overwrite that is not given is true.
rename(source, preserveIndices, notation, hasNew, newNotation, hasOverwrite, overwrite) ==
    moveTo(source, preserveIndices, source, TRUE, notation, hasNew, newNotation,
           hasOverwrite => overwrite)

RECURSIVE separateEach(_, _, _, _, _)
\* utils.each(notations, notation => ...) of Notation#separate: o is the
\* source of the accessor the removed values are set on.
separateEach(source, o, preserveIndices, notations, n) ==
    IF n > Len(notations) THEN [src |-> o, orig |-> source, err |-> "none"]
    ELSE With(inspectRemove(source, preserveIndices, notations[n]), LAMBDA result :
             IF result.err # "none"
             THEN [src |-> result.t, orig |-> result.t, err |-> result.err]
             ELSE With(set(o, notations[n], result.value, "overwrite"), LAMBDA r :
                      IF r.err # "none"
                      THEN [src |-> result.t, orig |-> result.t, err |-> r.err]
                      ELSE separateEach(result.t, r.t, preserveIndices, notations, n + 1)))

\* Notation#separate(notations): src is this._source as the call leaves it,
\* orig the object that was this._source when it was called.
separate(source, preserveIndices, notations) ==
    separateEach(source, Map(<<>>), preserveIndices, notations, 1)

\* The items of a collection in the order utils.eachItem visits them: a list
\* by index (from the right when reverseIfArray is set: utils.eachRight), a map
\* by Object.keys.  Each item is [note, val]; the note of an index is "[i]",
\* the note of a key is the key as it stands.
RECURSIVE listItems(_, _)
listItems(items, n) ==
    IF n > Len(items) THEN <<>>
    ELSE <<[note |-> <<IdxTok(n - 1)>>, val |-> Read(items[n])]>> \o listItems(items, n + 1)

RECURSIVE Reverse(_)
Reverse(s) == IF s = <<>> THEN <<>> ELSE Reverse(Tail(s)) \o <<Head(s)>>

RECURSIVE mapItems(_, _)
mapItems(entries, n) ==
    IF n > Len(entries) THEN <<>>
    ELSE <<[note |-> entries[n].key, val |-> entries[n].val]>> \o mapItems(entries, n + 1)

eachItem(coll, reverseIfArray) ==
    IF coll.k = "list"
    THEN IF reverseIfArray THEN Reverse(listItems(coll.e, 1)) ELSE listItems(coll.e, 1)
    ELSE mapItems(coll.e, 1)

RECURSIVE eachLeaf(_, _, _, _)
\* _each with byLevel off and a callback that never returns false: the
\* [notation, value] pairs the callback is invoked with, in order.  A
\* collection is never passed to the callback, it is only walked into.
eachLeaf(items, n, reverseIfArray, parentNotation) ==
    IF n > Len(items) THEN <<>>
    ELSE LET currentNotation == parentNotation \o items[n].note
             value == items[n].val
             here == IF isCollection(value)
                     THEN eachLeaf(eachItem(value, reverseIfArray), 1, reverseIfArray,
                                   currentNotation)
                     ELSE <<[notation |-> currentNotation, value |-> value]>>
         IN  here \o eachLeaf(items, n + 1, reverseIfArray, parentNotation)

_each(collection, reverseIfArray) ==
    eachLeaf(eachItem(collection, reverseIfArray), 1, reverseIfArray, <<>>)

RECURSIVE eachUntil(_, _, _, _)
\* _each with a callback that returns false when it is given the notation
\* stopAt (<<>>: it never does): the notations the callback is invoked with,
\* in order.  The false ends the utils.eachItem loop it is returned in; the
\* _each that walks a nested collection returns nothing to the loop that
\* called it.
eachUntil(items, n, parentNotation, stopAt) ==
    IF n > Len(items) THEN <<>>
    ELSE LET currentNotation == parentNotation \o items[n].note
             value == items[n].val
         IN  IF ~isCollection(value)
             THEN IF currentNotation = stopAt THEN <<currentNotation>>
                  ELSE <<currentNotation>> \o eachUntil(items, n + 1, parentNotation, stopAt)
             ELSE eachUntil(eachItem(value, FALSE), 1, currentNotation, stopAt)
                      \o eachUntil(items, n + 1, parentNotation, stopAt)

\* Notation#each(callback)
each(source, stopAt) == eachUntil(eachItem(source, FALSE), 1, <<>>, stopAt)

RECURSIVE flattenInto_byKey(_, _, _)
\* A flatten that keys each value by its own note, not by its full notation.
flattenInto_byKey(o, leaves, n) ==
    IF n > Len(leaves) THEN o
    ELSE flattenInto_byKey(
             Assign(o, NormStr(<<leaves[n].notation[Len(leaves[n].notation)]>>),
                    leaves[n].value),
             leaves, n + 1)

RECURSIVE flattenInto(_, _, _)
\* o[notation] = value for each leaf the walk of Notation#flatten visits.
flattenInto(o, leaves, n) ==
    IF n > Len(leaves) THEN o
    ELSE flattenInto(Assign(o, NormStr(leaves[n].notation), leaves[n].value), leaves, n + 1)

\* Notation#flatten: the new source, a single-level map keyed by notation.
flatten(source) == flattenInto(Map(<<>>), _each(source, FALSE), 1)

\* String.prototype.includes on the characters of two strings.
includes(s, w) == \E n \in 0..(Len(s) - Len(w)) : SubSeq(s, n + 1, n + Len(w)) = w

\* The keys Notation#merge will not set: notation.includes('__proto__') ||
\* notation.includes('prototype') || notation.includes('constructor').
isReservedKey(notation) ==
    \E w \in {"__proto__", "prototype", "constructor"} :
        includes(Chars(notation), IdentChars(w))

RECURSIVE mergeFrom(_, _, _, _)
mergeFrom(level, entries, n, mode) ==
    IF n > Len(entries) THEN [t |-> level, err |-> "none"]
    ELSE IF isReservedKey(entries[n].key) THEN mergeFrom(level, entries, n + 1, mode)
    ELSE With(set(level, entries[n].key, entries[n].val, mode), LAMBDA r :
             IF r.err # "none" THEN r ELSE mergeFrom(r.t, entries, n + 1, mode))

\* Notation#merge(notationsObject, overwrite)
merge(source, notationsObject, overwrite) ==
    IF type(notationsObject) # "object"
    THEN [t |-> source, err |-> "InvalidNotationsObject"]
    ELSE mergeFrom(source, notationsObject.e, 1, IF overwrite THEN "overwrite" ELSE "keep")

\* Notation#expand: Notation.create({}).merge(this._source).value
expand(source) ==
    With(merge(Map(<<>>), source, TRUE), LAMBDA r :
        IF r.err = "none" THEN r ELSE [t |-> source, err |-> r.err])

RECURSIVE TreeEq(_, _)
\* Structural (deep) equality: maps by key, whatever the order of the keys.
TreeEq(x, y) ==
    IF x.k # y.k THEN FALSE
    ELSE CASE x.k = "map" ->
                /\ Len(x.e) = Len(y.e)
                /\ \A n \in 1..Len(x.e) :
                       /\ KeyPos(y.e, x.e[n].key) > 0
                       /\ TreeEq(x.e[n].val, y.e[KeyPos(y.e, x.e[n].key)].val)
           [] x.k = "list" ->
                /\ Len(x.e) = Len(y.e)
                /\ \A n \in 1..Len(x.e) : TreeEq(x.e[n], y.e[n])
           [] OTHER -> x = y

\* --------------------------------------------------------------- globs

Glob(neg, notes) == [neg |-> neg, notes |-> notes]

isWildTok(tok) == tok.t \in {"star", "istar"}

\* utils.re.WILDCARD: the whole string is "*" or "[*]".
reWILDCARD(g) == ~g.neg /\ Len(g.notes) = 1 /\ isWildTok(g.notes[1])

\* utils.re.NEGATE_ALL: the whole string is "!*" or "![*]".
reNEGATE_ALL(g) == g.neg /\ Len(g.notes) = 1 /\ isWildTok(g.notes[1])

\* utils.re.WILDCARDS.test: the string holds a wildcard outside quotes.
reWILDCARDS(notes) == \E n \in 1..Len(notes) : isWildTok(notes[n])

\* (absGlob.match(utils.re.WILDCARDS) || []).length: the number of wildcard
\* Notes of the glob.
wildCount(notes) == Cardinality({n \in 1..Len(notes) : isWildTok(notes[n])})

RECURSIVE stripTrail(_)
stripTrail(notes) ==
    IF Len(notes) > 1 /\ isWildTok(notes[Len(notes)])
    THEN stripTrail(SubSeq(notes, 1, Len(notes) - 1))
    ELSE notes

\* utils.normalizeGlobStr: trailing wildcards of a non-negated glob go.
normalizeGlobStr(g) == IF g.neg THEN g ELSE Glob(FALSE, stripTrail(g.notes))

\* NotationGlob._inspect: {glob, isNegated, absGlob} is glob.neg, glob.notes
\* of the normalized string.
_inspect(g) == normalizeGlobStr(g)

\* The notes of a NotationGlob instance: split(absGlob, true) normalizes the
\* absolute glob, which is never negated, so that trailing wildcards go.
instanceNotes(g) == stripTrail(_inspect(g).notes)

\* A note comparison without the test for identical notes.
_coversNote_wildOnly(a, absent, b) ==
    LET bIsArr == ~absent /\ b.t \in {"idx", "istar"}
    IN  \/ a.t = "star" /\ (absent \/ ~bIsArr)
        \/ a.t = "istar" /\ (absent \/ bIsArr)

\* _coversNote(a, b); absent is TRUE when b is undefined.
_coversNote(a, absent, b) ==
    IF ~absent /\ a = b THEN TRUE
    ELSE LET bIsArr == ~absent /\ b.t \in {"idx", "istar"}
         IN  \/ a.t = "star" /\ (absent \/ ~bIsArr)
             \/ a.t = "istar" /\ (absent \/ bIsArr)

\* A covers without the test on the length of a negated glob.
coversNotes_noGuard(aNeg, notesA, notesB) ==
    \A n \in 1..Len(notesA) :
        IF n <= Len(notesB) THEN _coversNote(notesA[n], FALSE, notesB[n])
        ELSE _coversNote(notesA[n], TRUE, notesA[n])

\* NotationGlob.covers on the notes of the two globs.
coversNotes(aNeg, notesA, notesB) ==
    IF aNeg /\ Len(notesA) > Len(notesB) THEN FALSE
    ELSE \A n \in 1..Len(notesA) :
             IF n <= Len(notesB) THEN _coversNote(notesA[n], FALSE, notesB[n])
             ELSE _coversNote(notesA[n], TRUE, notesA[n])

\* covers(a, b) for two _inspect results (normalize, _compareUnion): their
\* notes are split(absGlob), trailing wildcards kept.
covers(a, b) == coversNotes(a.neg, a.notes, b.notes)

\* glob.covers(notation) and glob.test(notation) of an instance.
instanceCovers(g, notation) == coversNotes(_inspect(g).neg, instanceNotes(g), notation)

\* The notes NotationGlob.covers reads from an argument: the notes of the
\* instance it makes of a string (trailing wildcards left out), or
\* split(absGlob) of an inspection result, which has no notes of its own.
notesOf(glob, asString) == IF asString THEN instanceNotes(glob) ELSE _inspect(glob).notes

\* NotationGlob.covers(globA, globB) on two strings or two inspection results.
staticCovers(globA, globB, asString) ==
    coversNotes(_inspect(globA).neg, notesOf(globA, asString), notesOf(globB, asString))

_isReverseOf(a, b) == a.neg # b.neg /\ a.notes = b.notes

\* NotationGlob.compare
compare(globA, globB) ==
    IF globA = globB \/ (reWILDCARD(globA) /\ reWILDCARD(globB)) THEN 0
    ELSE LET a == _inspect(globA)
             b == _inspect(globB)
         IN  IF Len(a.notes) = Len(b.notes)
             THEN IF wildCount(a.notes) = wildCount(b.notes)
                  THEN IF ~a.neg /\ b.neg THEN -1
                       ELSE IF a.neg /\ ~b.neg THEN 1
                       ELSE IF LexLess(Chars(a.notes), Chars(b.notes)) THEN -1
                       ELSE IF LexLess(Chars(b.notes), Chars(a.notes)) THEN 1
                       ELSE 0
                  ELSE IF wildCount(a.notes) > wildCount(b.notes) THEN -1 ELSE 1
             ELSE IF Len(a.notes) < Len(b.notes) THEN -1 ELSE 1

\* _negFirstSort
_negFirstSort(a, b) == IF a.neg THEN -1 ELSE IF b.neg THEN 1 ELSE 0

comparefn(byCompare, a, b) == IF byCompare THEN compare(a, b) ELSE _negFirstSort(a, b)

\* Array.prototype.sort for an array of fewer than 64 elements: one run is
\* counted (and reversed when it descends), the rest is inserted by binary
\* search.  The order matters because _negFirstSort is not a consistent
\* comparator.
RECURSIVE runEnd(_, _, _, _)
runEnd(arr, idx, isDescending, byCompare) ==
    IF idx > Len(arr) THEN Len(arr)
    ELSE With(comparefn(byCompare, arr[idx], arr[idx - 1]), LAMBDA order :
             IF (isDescending /\ order >= 0) \/ (~isDescending /\ order < 0)
             THEN idx - 1
             ELSE runEnd(arr, idx + 1, isDescending, byCompare))

RECURSIVE insertionPoint(_, _, _, _, _)
insertionPoint(arr, pivot, left, right, byCompare) ==
    IF left >= right THEN left
    ELSE LET mid == left + ((right - left) \div 2)
         IN  IF comparefn(byCompare, pivot, arr[mid]) < 0
             THEN insertionPoint(arr, pivot, left, mid, byCompare)
             ELSE insertionPoint(arr, pivot, mid + 1, right, byCompare)

RECURSIVE binaryInsertionSort(_, _, _)
binaryInsertionSort(arr, start, byCompare) ==
    IF start > Len(arr) THEN arr
    ELSE LET left == insertionPoint(arr, arr[start], 1, start, byCompare)
         IN  binaryInsertionSort(InsertAt(RemoveAt(arr, start), left, arr[start]),
                                 start + 1, byCompare)

arraySort(arr, byCompare) ==
    IF Len(arr) < 2 THEN arr
    ELSE With(comparefn(byCompare, arr[2], arr[1]) < 0, LAMBDA isDescending :
         With(runEnd(arr, 3, isDescending, byCompare), LAMBDA runLength :
             LET run == IF isDescending
                        THEN Reverse(SubSeq(arr, 1, runLength))
                                 \o SubSeq(arr, runLength + 1, Len(arr))
                        ELSE arr
             IN  binaryInsertionSort(run, runLength + 1, byCompare)))

\* NotationGlob.sort
sort(globsArray) == arraySort(globsArray, TRUE)

RECURSIVE mapInspect(_)
mapInspect(globs) ==
    IF globs = <<>> THEN <<>> ELSE <<_inspect(Head(globs))>> \o mapInspect(Tail(globs))

RECURSIVE intersectNotes(_, _, _)
\* The loop of NotationGlob._intersect; <<>> when it gives no intersection.
intersectNotes(notesA, notesB, n) ==
    IF n > Len(notesA) /\ n > Len(notesB) THEN <<>>
    ELSE LET hasA == n <= Len(notesA)
             hasB == n <= Len(notesB)
             pick == IF hasA /\ hasB /\ notesA[n] = notesB[n] THEN <<notesA[n]>>
                     ELSE IF hasA /\ isWildTok(notesA[n])
                          THEN IF ~hasB THEN <<notesA[n]>> ELSE <<notesB[n]>>
                     ELSE IF hasB /\ isWildTok(notesB[n])
                          THEN IF ~hasA THEN <<notesB[n]>> ELSE <<notesA[n]>>
                     ELSE IF hasA /\ ~hasB THEN <<notesA[n]>>
                     ELSE IF ~hasA /\ hasB THEN <<notesB[n]>>
                     ELSE <<>>
             rest == intersectNotes(notesA, notesB, n + 1)
         IN  IF pick = <<>> THEN <<>>
             ELSE IF n >= Len(notesA) /\ n >= Len(notesB) THEN pick
             ELSE IF rest = <<>> THEN <<>>
             ELSE pick \o rest

\* NotationGlob._intersect(globA, globB): a one-element sequence holding the
\* intersection glob, or <<>> for null.
_intersect(globA, globB) ==
    LET notesI == intersectNotes(globA.notes, globB.notes, 1)
    IN  IF notesI = <<>> THEN <<>> ELSE <<Glob(globA.neg \/ globB.neg, notesI)>>

\* intersections[_int] = _int: the keys keep the order of their first insertion.
addKeys(keys, more) ==
    IF more = <<>> \/ (\E n \in 1..Len(keys) : keys[n] = more[1]) THEN keys
    ELSE keys \o more

RECURSIVE addAllKeys(_, _, _)
addAllKeys(keys, more, n) ==
    IF n > Len(more) THEN keys ELSE addAllKeys(addKeys(keys, <<more[n]>>), more, n + 1)

\* The flags of one pass of the inner loop of normalize.
noFlags ==
    [duplicate |-> FALSE, hasExactNeg |-> FALSE, removed |-> FALSE,
     negCoversPos |-> FALSE, negCoveredByPos |-> FALSE, negCoveredByNeg |-> FALSE,
     posCoversPos |-> FALSE, posCoveredByNeg |-> FALSE, posCoveredByPos |-> FALSE,
     ints |-> <<>>]

RECURSIVE normalizeInner(_, _, _, _)
\* utils.eachRight(list, (b, indexB) => ...) for the glob at indexA: the flags
\* and the intersections found.  removed says that list.splice(indexA, 1) ran,
\* which ends the loop.
normalizeInner(list, indexA, indexB, f) ==
    IF indexB < 1 THEN f
    ELSE IF indexA = indexB THEN normalizeInner(list, indexA, indexB - 1, f)
    ELSE LET a == list[indexA]
             b == list[indexB]
             coversB == covers(a, b)
             coveredByB == IF coversB THEN FALSE ELSE covers(b, a)
             int == IF ~coversB /\ ~coveredByB THEN _intersect(a, b) ELSE <<>>
         IN  IF a = b THEN [f EXCEPT !.duplicate = TRUE, !.removed = TRUE]
             ELSE IF ~a.neg /\ _isReverseOf(a, b)
             THEN [f EXCEPT !.hasExactNeg = TRUE, !.removed = TRUE]
             ELSE IF a.neg
             THEN IF b.neg
                  THEN IF coveredByB
                       THEN [f EXCEPT !.negCoveredByNeg = TRUE, !.removed = TRUE]
                       ELSE normalizeInner(list, indexA, indexB - 1, f)
                  ELSE normalizeInner(list, indexA, indexB - 1,
                           [f EXCEPT !.negCoversPos = @ \/ coversB,
                                     !.negCoveredByPos = @ \/ coveredByB,
                                     !.ints = addKeys(@, int)])
             ELSE IF b.neg
                  THEN IF coveredByB
                       THEN [f EXCEPT !.posCoveredByNeg = TRUE, !.removed = TRUE]
                       ELSE normalizeInner(list, indexA, indexB - 1,
                                [f EXCEPT !.ints = addKeys(@, int)])
                  ELSE IF coveredByB
                       THEN [f EXCEPT !.posCoversPos = @ \/ coversB,
                                      !.posCoveredByPos = TRUE, !.removed = TRUE]
                       ELSE normalizeInner(list, indexA, indexB - 1,
                                [f EXCEPT !.posCoversPos = @ \/ coversB])

\* const keep = ... of normalize
normalizeKeep(a, f) ==
    /\ ~f.hasExactNeg
    /\ IF a.neg
       THEN (f.negCoversPos \/ f.negCoveredByPos) /\ ~f.negCoveredByNeg
       ELSE (f.posCoversPos \/ ~f.posCoveredByPos) /\ ~f.posCoveredByNeg

RECURSIVE normalizeOuter(_, _, _, _)
\* utils.eachRight(list, (a, indexA) => ...): the globs kept, then the
\* intersections, or negateAll.
normalizeOuter(list, indexA, normalized, intersections) ==
    IF indexA < 1
    THEN [negateAll |-> FALSE, normalized |-> normalized, intersections |-> intersections]
    ELSE IF reNEGATE_ALL(list[indexA])
    THEN [negateAll |-> TRUE, normalized |-> normalized, intersections |-> intersections]
    ELSE With(normalizeInner(list, indexA, Len(list), noFlags), LAMBDA f :
             LET a == list[indexA]
                 keys == addAllKeys(intersections, f.ints, 1)
             IN  normalizeOuter(IF f.removed THEN RemoveAt(list, indexA) ELSE list,
                                indexA - 1,
                                IF normalizeKeep(a, f) /\ ~f.duplicate
                                THEN Append(normalized, a) ELSE normalized,
                                keys))

\* NotationGlob.normalize(globsArray)
normalize(globsArray) ==
    With(mapInspect(arraySort(globsArray, FALSE)), LAMBDA list :
        IF Len(list) = 1
        THEN IF list[1].neg THEN <<>> ELSE list
        ELSE With(normalizeOuter(list, Len(list), <<>>, <<>>), LAMBDA r :
                 IF r.negateAll THEN <<>>
                 ELSE sort(r.normalized \o r.intersections)))

\* The flags of one pass of the inner loop of _compareUnion.
noUnionFlags ==
    [notCovered |-> FALSE, hasExact |-> FALSE, negCoversNeg |-> FALSE,
     posCoversNeg |-> FALSE, posCoversPos |-> FALSE, negCoversPos |-> FALSE,
     negIntersections |-> <<>>]

RECURSIVE unionInner(_, _, _, _)
\* utils.eachRight(globsListB, globB => ...) for one glob of globsListA.
unionInner(globA, globsListB, indexB, f) ==
    IF indexB < 1 THEN f
    ELSE LET a == _inspect(globA)
             globB == globsListB[indexB]
             b == _inspect(globB)
             hasExact == f.hasExact \/ globA = globB
             notCovered == ~covers(b, a)
             g == [f EXCEPT !.hasExact = hasExact, !.notCovered = notCovered]
         IN  unionInner(globA, globsListB, indexB - 1,
                 IF notCovered
                 THEN IF a.neg /\ b.neg
                      THEN [g EXCEPT !.negIntersections = @ \o _intersect(a, b)]
                      ELSE g
                 ELSE IF a.neg
                      THEN IF b.neg THEN [g EXCEPT !.negCoversNeg = ~hasExact]
                           ELSE [g EXCEPT !.posCoversNeg = TRUE]
                      ELSE IF ~b.neg THEN [g EXCEPT !.posCoversPos = ~hasExact]
                           ELSE [g EXCEPT !.negCoversPos = TRUE])

isIn(seq, x) == \E n \in 1..Len(seq) : seq[n] = x

RECURSIVE unionOuter(_, _, _, _)
unionOuter(globsListA, globsListB, indexA, union) ==
    IF indexA < 1 THEN union
    ELSE With(unionInner(globsListA[indexA], globsListB, Len(globsListB), noUnionFlags),
              LAMBDA f :
         LET globA == globsListA[indexA]
             a == _inspect(globA)
             keep == IF a.neg THEN ~f.posCoversNeg \/ f.negCoversNeg
                     ELSE ~f.posCoversPos \/ f.negCoversPos
             next == IF isIn(union, globA) THEN union
                     ELSE IF Len(a.notes) = 1 /\ isWildTok(a.notes[1]) THEN Append(union, a)
                     ELSE IF f.hasExact \/ keep \/ (f.notCovered /\ ~a.neg)
                     THEN Append(union, a)
                     ELSE IF a.neg /\ f.posCoversNeg /\ ~f.negCoversNeg
                             /\ f.negIntersections # <<>>
                     THEN union \o f.negIntersections
                     ELSE union
         IN  unionOuter(globsListA, globsListB, indexA - 1, next))

\* NotationGlob._compareUnion(globsListA, globsListB, union)
_compareUnion(globsListA, globsListB, union) ==
    unionOuter(globsListA, globsListB, Len(globsListA), union)

\* NotationGlob.union(globsA, globsB)
union(globsA, globsB) ==
    IF Len(globsA) = 0 THEN globsB
    ELSE IF Len(globsB) = 0 THEN globsA
    ELSE With(normalize(globsA), LAMBDA listA :
         With(normalize(globsB), LAMBDA listB :
             normalize(_compareUnion(listB, listA, _compareUnion(listA, listB, <<>>)))))

\* -------------------------------------------------------------- filter

\* utils.cloneDeep: a copy that shares nothing with the collection.
cloneDeep(collection) == collection

\* A reference to the object the source holds at a notation.  filter stores
\* such a reference in the filtered tree (the value of inspectGet is set as
\* it is, not cloned), so a later write below it is a write to the source.
Ref(notation) == [k |-> "ref", v |-> 0, e |-> notation]

RECURSIVE deref(_, _)
\* The filtered tree as a value: every reference replaced by what the source
\* holds there.
deref(x, orig) ==
    CASE x.k = "ref" -> Walk(orig, x.e, 1).value
      [] x.k = "map" ->
           Map([n \in 1..Len(x.e) |-> Entry(x.e[n].key, deref(x.e[n].val, orig))])
      [] x.k = "list" -> List([n \in 1..Len(x.e) |-> deref(x.e[n], orig)])
      [] OTHER -> x

RECURSIVE refAt(_, _, _)
\* Where the walk of a notation through the filtered tree enters an object
\* shared with the source: the index of the first note looked up in it and
\* the notation of the object in the source; n = 0 when it enters none.
refAt(level, notes, n) ==
    IF n > Len(notes) THEN [n |-> 0, base |-> <<>>]
    ELSE IF level.k = "ref" THEN [n |-> n, base |-> level.e]
    ELSE IF hasOwn(level, normalizeNote(notes[n]))
         THEN refAt(Member(level, normalizeNote(notes[n])), notes, n + 1)
         ELSE [n |-> 0, base |-> <<>>]

\* filtered.set(notation, value, mode) on the pair [filtered, orig].
fSet(F, notation, value, mode) ==
    With(refAt(F.filtered, notation, 1), LAMBDA at :
        IF at.n > 0
        THEN With(set(F.orig, at.base \o SubSeq(notation, at.n, Len(notation)),
                      deref(value, F.orig), mode), LAMBDA r :
                 [filtered |-> F.filtered, orig |-> r.t, err |-> r.err])
        ELSE With(set(F.filtered, notation, value, mode), LAMBDA r :
                 [filtered |-> r.t, orig |-> F.orig, err |-> r.err]))

\* filtered.inspectRemove(notation) on the pair [filtered, orig]; filtered is
\* made with the default options, so preserveIndices is off.
fInspectRemove(F, notation) ==
    With(refAt(F.filtered, notation, 1), LAMBDA at :
        IF at.n > 0
        THEN With(inspectRemove(F.orig, FALSE,
                                at.base \o SubSeq(notation, at.n, Len(notation))),
                  LAMBDA r :
                 [filtered |-> F.filtered, orig |-> r.t, err |-> r.err, has |-> r.has,
                  value |-> r.value, type |-> r.type, parentIsArray |-> r.parentIsArray])
        ELSE With(inspectRemove(F.filtered, FALSE, notation), LAMBDA r :
                 [filtered |-> r.t, orig |-> F.orig, err |-> r.err, has |-> r.has,
                  value |-> deref(r.value, F.orig),
                  type |-> type(deref(r.value, F.orig)),
                  parentIsArray |-> r.parentIsArray]))

\* The accessor filter writes to made strict.
filteredStrict_on == TRUE

\* options.strict of the accessor filter writes to: new Notation(cloned) and
\* new Notation(empty) are given no options, so that it is never strict.
filteredStrict == FALSE

\* filtered.remove(levelNotation): inspectRemove, and in strict mode an error
\* for a miss.
fRemove(F, notation) ==
    With(fInspectRemove(F, notation), LAMBDA r :
        [filtered |-> r.filtered, orig |-> r.orig,
         err |-> IF r.err = "none" /\ filteredStrict /\ ~r.has
                 THEN IF r.parentIsArray THEN "MissingIndex" ELSE "MissingProperty"
                 ELSE r.err])

\* The wildcard-free branch of the per-glob callback of Notation#filter.
filterDirect(F, strict, g, normalized, hasEmptyValue, emptyValue, eType) ==
    IF g.neg
    THEN With(fInspectRemove(F, normalized), LAMBDA insRemove :
             LET after == [filtered |-> insRemove.filtered, orig |-> insRemove.orig,
                           err |-> insRemove.err]
                 isValSet == isset(insRemove.value)
             IN  IF insRemove.err # "none" \/ ~hasEmptyValue THEN after
                 ELSE IF (isValSet /\ insRemove.type # eType) \/ (~isValSet /\ strict)
                 THEN [after EXCEPT !.err = "IntegrityError"]
                 ELSE fSet(after, normalized, emptyValue,
                           IF insRemove.parentIsArray THEN "insert" ELSE "overwrite"))
    ELSE With(inspectGet(F.orig, normalized), LAMBDA insGet :
             IF insGet.err # "none" THEN [F EXCEPT !.err = insGet.err]
             ELSE IF ~insGet.has THEN F
             ELSE fSet(F, normalized,
                       IF isCollection(insGet.value) THEN Ref(normalized) ELSE insGet.value,
                       "overwrite"))

RECURSIVE filterLevels(_, _, _, _, _)
\* Notation.eachNote(originalNotation, levelNotation => ...) of the deep walk.
filterLevels(F, g, originalNotation, value, n) ==
    IF n > Len(originalNotation) \/ F.err # "none" THEN F
    ELSE LET levelNotation == SubSeq(originalNotation, 1, n)
         IN  IF ~IsValid(levelNotation) THEN [F EXCEPT !.err = "InvalidSyntax"]
             ELSE IF ~instanceCovers(g, levelNotation)
             THEN filterLevels(F, g, originalNotation, value, n + 1)
             ELSE IF g.neg /\ Len(instanceNotes(g)) <= n
             THEN fRemove(F, levelNotation)
             ELSE filterLevels(fSet(F, levelNotation, value, "overwrite"), g,
                               originalNotation, value, n + 1)

\* A glob the NotationGlob constructor accepts (reVALIDATOR of the glob file).
IsValidGlob(notes) ==
    /\ Len(notes) > 0
    /\ \A n \in 1..Len(notes) : notes[n].t \in {"key", "idx", "star", "istar"}

RECURSIVE filterLeaves(_, _, _, _, _, _, _, _)
\* _each(this._source, (originalNotation, key, value) => ..., true): the deep
\* walk of one wildcard-bearing glob over the leaves of the source.
filterLeaves(F, strict, g, normalized, hasEmptyValue, eType, leaves, n) ==
    IF n > Len(leaves) \/ F.err # "none" THEN F
    ELSE LET originalNotation == leaves[n].notation
             value == leaves[n].value
         IN  IF ~IsValidGlob(originalNotation) THEN [F EXCEPT !.err = "InvalidSyntax"]
             ELSE IF ~instanceCovers(Glob(FALSE, normalized), originalNotation)
             THEN filterLeaves(F, strict, g, normalized, hasEmptyValue, eType, leaves, n + 1)
             ELSE IF /\ strict /\ hasEmptyValue /\ type(value) # eType
                     /\ Len(originalNotation) = Len(instanceNotes(g)) - 1
             THEN [F EXCEPT !.err = "IntegrityError"]
             ELSE filterLeaves(filterLevels(F, g, originalNotation, value, 1), strict, g,
                               normalized, hasEmptyValue, eType, leaves, n + 1)

\* The callback of utils.each(globs, globNotation => ...) in Notation#filter.
filterGlob(F, strict, g) ==
    LET absGlob == g.notes
        last == absGlob[Len(absGlob)]
        dotStar == Len(absGlob) > 1 /\ last.t = "star"
        idxStar == last.t = "istar"
        normalized == IF dotStar \/ idxStar THEN SubSeq(absGlob, 1, Len(absGlob) - 1)
                      ELSE absGlob
        hasEmptyValue == (dotStar \/ idxStar) /\ g.neg
        emptyValue == IF dotStar THEN Map(<<>>) ELSE List(<<>>)
        eType == IF dotStar THEN "object" ELSE IF idxStar THEN "array" ELSE "undefined"
    IN  IF ~reWILDCARDS(normalized)
        THEN IF normalized = <<>> THEN [F EXCEPT !.err = "InvalidSyntax"]
             ELSE filterDirect(F, strict, g, normalized, hasEmptyValue, emptyValue, eType)
        ELSE filterLeaves(F, strict, g, normalized, hasEmptyValue, eType,
                          _each(F.orig, TRUE), 1)

RECURSIVE filterGlobs(_, _, _, _)
filterGlobs(F, strict, globs, n) ==
    IF n > Len(globs) \/ F.err # "none" THEN F
    ELSE filterGlobs(filterGlob(F, strict, globs[n]), strict, globs, n + 1)

\* Notation#filter(globList): src is this._source as the call leaves it, orig
\* the object that was this._source when it was called, as the call leaves
\* it, err the error the call ends with.
filter(source, isArray, strict, globList) ==
    With(normalize(globList), LAMBDA globs :
        LET len == Len(globs)
            empty == IF isArray THEN List(<<>>) ELSE Map(<<>>)
            cloned == cloneDeep(source)
            firstIsWildcard == reWILDCARD(globs[1])
            start == [filtered |-> IF firstIsWildcard THEN cloned ELSE empty,
                      orig |-> source, err |-> "none"]
        IN  IF len = 0 \/ (len = 1 /\ reNEGATE_ALL(globs[1]))
            THEN [src |-> empty, orig |-> source, err |-> "none"]
            ELSE IF len = 1 /\ firstIsWildcard
            THEN [src |-> cloned, orig |-> source, err |-> "none"]
            ELSE With(filterGlobs(start, strict,
                                  IF firstIsWildcard THEN Tail(globs) ELSE globs, 1),
                      LAMBDA F :
                     IF F.err # "none" THEN [src |-> F.orig, orig |-> F.orig, err |-> F.err]
                     ELSE [src |-> deref(F.filtered, F.orig), orig |-> F.orig,
                           err |-> "none"]))

\* ------------------------------------------------------------- inputs

MaxLen == 2
MaxSteps == 2
MaxGlobs == 2
MaxFilters == 1
MaxPaths == 2
MaxSeparates == 1
MaxCovers == 1
MaxReads == 1
MaxMerges == 1
MaxMoves == 1

noteA == <<KeyTok("a")>>
noteB == <<KeyTok("b")>>
idx0 == <<IdxTok(0)>>
idx1 == <<IdxTok(1)>>
noteStar == <<StarTok>>
noteIStar == <<IStarTok>>

\* Scalar leaves, null and undefined.
Leaves == {Num(1), Null, Undef}

\* The lists of at most n values of a set.
RECURSIVE SeqsUpTo(_, _)
SeqsUpTo(S, n) ==
    IF n = 0 THEN {<<>>}
    ELSE LET shorter == SeqsUpTo(S, n - 1)
         IN  shorter \cup {Append(q, x) : q \in {r \in shorter : Len(r) = n - 1}, x \in S}

\* Maps over the keys a and b, lists of at most MaxLen items.
MapsOver(vals) ==
    {Map(<<>>)} \cup {Map(<<Entry(k, x)>>) : k \in {noteA, noteB}, x \in vals}
                \cup {Map(<<Entry(noteA, x), Entry(noteB, y)>>) : x, y \in vals}
ListsOver(vals) == {List(q) : q \in SeqsUpTo(vals, MaxLen)}

Flat == MapsOver(Leaves) \cup ListsOver(Leaves)

\* One container inside another, beside at most one leaf.
Nested ==
    {Map(<<Entry(k, x)>>) : k \in {noteA, noteB}, x \in Flat}
        \cup {Map(<<Entry(noteA, x), Entry(noteB, Num(2))>>) : x \in Flat}
        \cup {List(<<x>>) : x \in Flat}
        \cup {List(<<x, Num(2)>>) : x \in Flat}

\* Three levels deep.
Deep ==
    {Map(<<Entry(noteA, Map(<<Entry(noteB, x)>>))>>) : x \in {Map(<<Entry(noteA, Num(1))>>), List(<<Num(1)>>)}}
        \cup {Map(<<Entry(noteA, Map(<<Entry(noteB, Map(<<Entry(noteA, Num(1))>>)), Entry(noteA, Num(2))>>))>>)}

Trees == Flat \cup Nested \cup Deep

Paths ==
    {noteA, noteB, idx0, idx1, noteA \o noteB, noteA \o noteA, noteB \o noteA, noteA \o idx0,
     noteA \o idx1, idx0 \o noteA, idx0 \o idx0, idx1 \o noteA}
Values == {Num(3), Map(<<>>)}
Modes == {"overwrite", "insert", "keep"}

\* "*", "[*]", "a", "a.b", "*.b" and the negated "!a", "!a.b", "!a.*", "!a[*]",
\* "!*.b".
Globs ==
    {Glob(FALSE, notes) : notes \in {noteStar, noteIStar, noteA, noteA \o noteB, noteStar \o noteB}}
        \cup {Glob(TRUE, notes) : notes \in {noteA, noteA \o noteB, noteA \o noteStar,
                                             noteA \o noteIStar, noteStar \o noteB}}
GlobLists == SeqsUpTo(Globs, MaxGlobs)

\* The list of the example in the documentation of normalize:
\* ["*", "!id", "name", "car.model", "!car.*", "id", "name", "age"]
DocExample ==
    <<Glob(FALSE, noteStar), Glob(TRUE, <<KeyTok("id")>>), Glob(FALSE, <<KeyTok("name")>>),
      Glob(FALSE, <<KeyTok("car"), KeyTok("model")>>), Glob(TRUE, <<KeyTok("car"), StarTok>>),
      Glob(FALSE, <<KeyTok("id")>>), Glob(FALSE, <<KeyTok("name")>>),
      Glob(FALSE, <<KeyTok("age")>>)>>

\* The globs covers is called with: those above, with "a.*", "a[*]", "*.*",
\* "!*", "!a.*.*" and "!a.b.*" beside them, and the paths as globs.
CoverGlobs ==
    Globs \cup {Glob(FALSE, notes) : notes \in {noteA \o noteStar, noteA \o noteIStar,
                                                 noteStar \o noteStar}}
          \cup {Glob(TRUE, notes) : notes \in {noteStar, noteA \o noteStar \o noteStar,
                                                noteA \o noteB \o noteStar}}
          \cup {Glob(FALSE, notes) : notes \in Paths}

\* Trees with two leaves below a.b, below a and below [0], beside those that
\* are three levels deep.
DeepTrees ==
    Deep \cup {Map(<<Entry(noteA, Map(<<Entry(noteB, x)>>))>>) :
                  x \in {Map(<<Entry(noteA, Num(1)), Entry(noteB, Num(2))>>),
                         List(<<Num(1), Num(2)>>)}}
         \cup {Map(<<Entry(noteA, Map(<<Entry(noteA, Num(1)), Entry(noteB, Num(2))>>))>>),
               List(<<List(<<Num(1), Num(2)>>)>>),
               List(<<Map(<<Entry(noteA, Num(1)), Entry(noteB, Num(2))>>)>>)}

\* The sources of the accessor all the operations are run on, and the trees
\* given to an operation as its destination or target.
Seeds ==
    {Map(<<>>), List(<<>>), Map(<<Entry(noteA, Num(1))>>), List(<<Num(1)>>),
     Map(<<Entry(noteA, Map(<<Entry(noteB, Num(1))>>))>>), List(<<Num(1), Null>>)}

\* -------------------------------------------------------------- state

VARIABLES src, isArr, strict, preserveIndices, hist, A, B

vars == <<src, isArr, strict, preserveIndices, hist, A, B>>

\* The record of one call: its arguments, the options in force when it was
\* made, this._source before (pre) and after (post) it, the object that was
\* this._source before it as the call leaves it (orig), and what the call gave
\* back.
Call == [op |-> "", notation |-> <<>>, value |-> Undef, mode |-> "", globs |-> <<>>,
         globsB |-> <<>>, pre |-> Undef, post |-> Undef, orig |-> Undef, err |-> "none",
         has |-> FALSE, out |-> Undef, outGlobs |-> <<>>, asString |-> FALSE,
         parentIsArray |-> FALSE, hasDefault |-> FALSE, visited |-> <<>>, paths |-> <<>>,
         order |-> 0, hasNew |-> FALSE, newNotation |-> <<>>, dest |-> Undef,
         destPost |-> Undef, isSource |-> FALSE, strict |-> FALSE,
         preserveIndices |-> FALSE]

\* new Notation(source, options): this.options = options, with no options
\* held yet.
Construct(source) ==
    /\ src = source
    /\ isArr = (type(source) = "array")
    /\ \E value \in OptionValues :
           /\ strict = setOptions(DEFAULT_OPTS, value).strict
           /\ preserveIndices = setOptions(DEFAULT_OPTS, value).preserveIndices
    /\ hist = <<>>
    /\ A = <<>>
    /\ B = <<>>

Init == \E source \in Trees : Construct(source)

Record(call) ==
    hist' = Append(hist, [call EXCEPT !.strict = strict,
                                      !.preserveIndices = preserveIndices])

\* notation.options = value, while calls can still follow.
SetOptions ==
    /\ Len(hist) < MaxSteps
    /\ \E value \in OptionValues :
           /\ strict' = setOptions([strict |-> strict,
                                    preserveIndices |-> preserveIndices], value).strict
           /\ preserveIndices' = setOptions([strict |-> strict,
                                             preserveIndices |-> preserveIndices],
                                            value).preserveIndices
    /\ UNCHANGED <<src, isArr, hist, A, B>>

\* clone()
Clone ==
    /\ Len(hist) < MaxSteps
    /\ src' = cloneDeep(src)
    /\ Record([Call EXCEPT !.op = "clone", !.pre = src, !.post = cloneDeep(src),
                           !.orig = src])
    /\ UNCHANGED <<isArr, strict, preserveIndices, A, B>>

Set ==
    /\ Len(hist) < MaxSteps
    /\ \E notation \in Paths, value \in Values, mode \in Modes :
           \E r \in {set(src, notation, value, mode)} :
               /\ src' = r.t
               /\ Record([Call EXCEPT !.op = "set", !.notation = notation,
                                      !.value = value, !.mode = mode, !.pre = src,
                                      !.post = r.t, !.orig = r.t, !.err = r.err])
               /\ UNCHANGED <<isArr, strict, preserveIndices, A, B>>

Get ==
    /\ Len(hist) < MaxSteps
    /\ \E notation \in Paths :
           \E r \in {get(src, strict, notation, FALSE, Undef)} :
               /\ Record([Call EXCEPT !.op = "get", !.notation = notation, !.pre = src,
                                      !.post = src, !.orig = src, !.err = r.err,
                                      !.out = r.value])
               /\ UNCHANGED <<src, isArr, strict, preserveIndices, A, B>>

\* The calls that only read the source.
Reads == {n \in 1..Len(hist) : hist[n].op \in {"get", "inspectGet"}}

\* get(notation) and get(notation, defaultValue), whose second argument may
\* be undefined.
GetOr ==
    /\ Len(hist) < MaxSteps
    /\ Cardinality(Reads) < MaxReads
    /\ \E notation \in Paths, hasDefault \in BOOLEAN :
        \E defaultValue \in IF hasDefault THEN {Num(3), Undef} ELSE {Undef} :
           \E r \in {get(src, strict, notation, hasDefault, defaultValue)} :
               /\ Record([Call EXCEPT !.op = "get", !.notation = notation,
                                      !.value = defaultValue, !.hasDefault = hasDefault,
                                      !.pre = src, !.post = src, !.orig = src,
                                      !.err = r.err, !.out = r.value])
               /\ UNCHANGED <<src, isArr, strict, preserveIndices, A, B>>

InspectGet ==
    /\ Len(hist) < MaxSteps
    /\ Cardinality(Reads) < MaxReads
    /\ \E notation \in Paths :
           \E r \in {inspectGet(src, notation)} :
               /\ Record([Call EXCEPT !.op = "inspectGet", !.notation = notation,
                                      !.pre = src, !.post = src, !.orig = src,
                                      !.err = r.err, !.has = r.has, !.out = r.value,
                                      !.parentIsArray = r.parentIsArray])
               /\ UNCHANGED <<src, isArr, strict, preserveIndices, A, B>>

\* each(callback) with a callback that returns false at one of the leaves, or
\* at none.
Each ==
    /\ Len(hist) < MaxSteps
    /\ \E stopAt \in {<<>>} \cup {_each(src, FALSE)[n].notation :
                                       n \in 1..Len(_each(src, FALSE))} :
           /\ Record([Call EXCEPT !.op = "each", !.notation = stopAt, !.pre = src,
                                  !.post = src, !.orig = src,
                                  !.visited = each(src, stopAt)])
           /\ UNCHANGED <<src, isArr, strict, preserveIndices, A, B>>

Separate ==
    /\ Len(hist) < MaxSteps
    /\ Cardinality({n \in 1..Len(hist) : hist[n].op = "separate"}) < MaxSeparates
    /\ \E notations \in SeqsUpTo(Paths, MaxPaths) :
           \E r \in {separate(src, preserveIndices, notations)} :
               /\ src' = r.src
               /\ Record([Call EXCEPT !.op = "separate", !.paths = notations, !.pre = src,
                                      !.post = r.src, !.orig = r.orig, !.err = r.err])
               /\ UNCHANGED <<isArr, strict, preserveIndices, A, B>>

Remove ==
    /\ Len(hist) < MaxSteps
    /\ \E notation \in Paths :
           \E r \in {remove(src, strict, preserveIndices, notation)} :
               /\ src' = r.t
               /\ Record([Call EXCEPT !.op = "remove", !.notation = notation, !.pre = src,
                                      !.post = r.t, !.orig = r.t, !.err = r.err])
               /\ UNCHANGED <<isArr, strict, preserveIndices, A, B>>

InspectRemove ==
    /\ Len(hist) < MaxSteps
    /\ \E notation \in Paths :
           \E r \in {inspectRemove(src, preserveIndices, notation)} :
               /\ src' = r.t
               /\ Record([Call EXCEPT !.op = "inspectRemove", !.notation = notation,
                                      !.pre = src, !.post = r.t, !.orig = r.t,
                                      !.err = r.err, !.has = r.has, !.out = r.value])
               /\ UNCHANGED <<isArr, strict, preserveIndices, A, B>>

Flatten ==
    /\ Len(hist) < MaxSteps
    /\ \E r \in {flatten(src)} :
           /\ src' = r
           /\ Record([Call EXCEPT !.op = "flatten", !.pre = src, !.post = r, !.orig = src])
           /\ UNCHANGED <<isArr, strict, preserveIndices, A, B>>

Expand ==
    /\ Len(hist) < MaxSteps
    /\ \E r \in {expand(src)} :
           /\ src' = r.t
           /\ Record([Call EXCEPT !.op = "expand", !.pre = src, !.post = r.t,
                                  !.orig = src, !.err = r.err])
           /\ UNCHANGED <<isArr, strict, preserveIndices, A, B>>

FilterWith(globList) ==
    /\ Len(hist) < MaxSteps
    /\ Cardinality({n \in 1..Len(hist) : hist[n].op = "filter"}) < MaxFilters
    /\ \E r \in {filter(src, isArr, strict, globList)} :
           /\ src' = r.src
           /\ Record([Call EXCEPT !.op = "filter", !.globs = globList, !.pre = src,
                                  !.post = r.src, !.orig = r.orig, !.err = r.err])
           /\ UNCHANGED <<isArr, strict, preserveIndices, A, B>>

Filter == \E globList \in GlobLists : FilterWith(globList)

\* filter as the first call made on the accessor.
FilterOnce == hist = <<>> /\ Filter

\* NotationGlob.normalize on one of the lists under test, or on a list an
\* earlier call gave back.
Normalize ==
    /\ Len(hist) < MaxSteps
    /\ \E globsArray \in {A, B} \cup {hist[n].outGlobs : n \in 1..Len(hist)} :
        /\ Record([Call EXCEPT !.op = "normalize", !.globs = globsArray,
                               !.outGlobs = normalize(globsArray)])
        /\ UNCHANGED <<src, isArr, strict, preserveIndices, A, B>>

\* NotationGlob.union on the two lists under test, either way round.
Union ==
    /\ Len(hist) < MaxSteps
    /\ \E pair \in {<<A, B>>, <<B, A>>} :
        /\ Record([Call EXCEPT !.op = "union", !.globs = pair[1], !.globsB = pair[2],
                               !.outGlobs = union(pair[1], pair[2])])
        /\ UNCHANGED <<src, isArr, strict, preserveIndices, A, B>>

\* NotationGlob.covers(globA, globB), and glob.covers(glob.absGlob) of an
\* instance, which is the call on the strings glob and absGlob.
Covers ==
    /\ Len(hist) < MaxSteps
    /\ Cardinality({n \in 1..Len(hist) : hist[n].op = "covers"}) < MaxCovers
    /\ \E globA \in CoverGlobs, asString \in BOOLEAN :
           \E globB \in CoverGlobs \cup {Glob(FALSE, globA.notes)} :
               /\ Record([Call EXCEPT !.op = "covers", !.globs = <<globA>>,
                                      !.globsB = <<globB>>, !.asString = asString,
                                      !.has = staticCovers(globA, globB, asString)])
               /\ UNCHANGED <<src, isArr, strict, preserveIndices, A, B>>

\* NotationGlob.compare(globA, globB) on the globs covers is called with and
\* on "!b.*.*".
Compare ==
    /\ Len(hist) < MaxSteps
    /\ \E globA, globB \in CoverGlobs \cup {Glob(TRUE, noteB \o noteStar \o noteStar)} :
           /\ Record([Call EXCEPT !.op = "compare", !.globs = <<globA>>,
                                  !.globsB = <<globB>>, !.order = compare(globA, globB)])
           /\ UNCHANGED <<src, isArr, strict, preserveIndices, A, B>>

\* The objects merge is called with: one or two of the keys a, a.b, [0],
\* prototype, prototypes, a.constructor and __proto__; and a list, which is
\* no notations object.
MergeObjects ==
    LET keys == {noteA, noteA \o noteB, idx0, <<KeyTok("prototype")>>,
                 <<KeyTok("prototypes")>>, noteA \o <<KeyTok("constructor")>>,
                 <<KeyTok("__proto__")>>}
    IN  {List(<<Num(3)>>)}
            \cup {Map(<<Entry(k, x)>>) : k \in keys, x \in Values}
            \cup {Map(<<Entry(q[1], Num(3)), Entry(q[2], x)>>) :
                      q \in {kl \in keys \X keys : kl[1] # kl[2]}, x \in Values}

Merge ==
    /\ Len(hist) < MaxSteps
    /\ Cardinality({n \in 1..Len(hist) : hist[n].op = "merge"}) < MaxMerges
    /\ \E notationsObject \in MergeObjects, overwrite \in BOOLEAN :
           \E r \in {merge(src, notationsObject, overwrite)} :
               /\ src' = r.t
               /\ Record([Call EXCEPT !.op = "merge", !.value = notationsObject,
                                      !.mode = IF overwrite THEN "overwrite" ELSE "keep",
                                      !.pre = src, !.post = r.t, !.orig = r.t,
                                      !.err = r.err])
               /\ UNCHANGED <<isArr, strict, preserveIndices, A, B>>

\* The new notations of a move: b, [0], a.b and the invalid empty one.
NewPaths == {noteB, idx0, noteA \o noteB, <<>>}

\* The number of moves made so far.
MoveOps == {"moveTo", "moveFrom", "rename", "copyTo", "copyFrom", "extract", "extrude"}
Moves == Cardinality({n \in 1..Len(hist) : hist[n].op \in MoveOps})

\* moveTo a destination: one of the seeds, or a number, which is none.
MoveTo ==
    /\ Len(hist) < MaxSteps
    /\ Moves < MaxMoves
    /\ \E destination \in Seeds \cup {Num(1)}, notation \in Paths, hasNew \in BOOLEAN,
          overwrite \in BOOLEAN :
           \E newNotation \in IF hasNew THEN NewPaths ELSE {<<>>} :
               \E r \in {moveTo(src, preserveIndices, destination, FALSE, notation, hasNew,
                                 newNotation, overwrite)} :
                   /\ src' = r.src
                   /\ Record([Call EXCEPT !.op = "moveTo", !.notation = notation,
                                          !.hasNew = hasNew, !.newNotation = newNotation,
                                          !.mode = IF overwrite THEN "overwrite" ELSE "keep",
                                          !.pre = src, !.post = r.src, !.orig = r.src,
                                          !.dest = destination, !.destPost = r.dest,
                                          !.err = r.err])
                   /\ UNCHANGED <<isArr, strict, preserveIndices, A, B>>

\* moveFrom a target: one of the seeds, a number, which is none, or the very
\* object the accessor holds.
MoveFrom ==
    /\ Len(hist) < MaxSteps
    /\ Moves < MaxMoves
    /\ \E target \in Seeds \cup {Num(1)}, isSource \in BOOLEAN, notation \in Paths,
          hasNew \in BOOLEAN, overwrite \in BOOLEAN :
           /\ isSource => target = src
           /\ \E newNotation \in IF hasNew THEN NewPaths ELSE {<<>>} :
               \E r \in {moveFrom(src, target, isSource, notation, hasNew, newNotation,
                                   overwrite)} :
                   /\ src' = r.src
                   /\ Record([Call EXCEPT !.op = "moveFrom", !.notation = notation,
                                          !.hasNew = hasNew, !.newNotation = newNotation,
                                          !.mode = IF overwrite THEN "overwrite" ELSE "keep",
                                          !.pre = src, !.post = r.src, !.orig = r.src,
                                          !.dest = target, !.destPost = r.dest,
                                          !.isSource = isSource, !.err = r.err])
                   /\ UNCHANGED <<isArr, strict, preserveIndices, A, B>>

\* A copy inside the object the accessor holds is made of a value that is no
\* collection: a copied collection would be one object at two places of the
\* source, which a tree does not hold.
CopiesInside(isSource, other, notation) ==
    isSource => other = src /\ ~isCollection(inspectGet(src, notation).value)

\* copyTo a destination: one of the seeds, a number, which is none, or the
\* very object the accessor holds.
CopyTo ==
    /\ Len(hist) < MaxSteps
    /\ Moves < MaxMoves
    /\ \E destination \in Seeds \cup {Num(1)}, isSource \in BOOLEAN, notation \in Paths,
          hasNew \in BOOLEAN, overwrite \in BOOLEAN :
           /\ CopiesInside(isSource, destination, notation)
           /\ \E newNotation \in IF hasNew THEN NewPaths ELSE {<<>>} :
               \E r \in {copyTo(src, destination, isSource, notation, hasNew, newNotation,
                                 overwrite)} :
                   /\ src' = r.src
                   /\ Record([Call EXCEPT !.op = "copyTo", !.notation = notation,
                                          !.hasNew = hasNew, !.newNotation = newNotation,
                                          !.mode = IF overwrite THEN "overwrite" ELSE "keep",
                                          !.pre = src, !.post = r.src, !.orig = r.src,
                                          !.dest = destination, !.destPost = r.dest,
                                          !.isSource = isSource, !.err = r.err])
                   /\ UNCHANGED <<isArr, strict, preserveIndices, A, B>>

\* copyFrom a target: one of the seeds, a number, which is none, or the very
\* object the accessor holds.
CopyFrom ==
    /\ Len(hist) < MaxSteps
    /\ Moves < MaxMoves
    /\ \E target \in Seeds \cup {Num(1)}, isSource \in BOOLEAN, notation \in Paths,
          hasNew \in BOOLEAN, overwrite \in BOOLEAN :
           /\ CopiesInside(isSource, target, notation)
           /\ \E newNotation \in IF hasNew THEN NewPaths ELSE {<<>>} :
               \E r \in {copyFrom(src, target, isSource, notation, hasNew, newNotation,
                                   overwrite)} :
                   /\ src' = r.src
                   /\ Record([Call EXCEPT !.op = "copyFrom", !.notation = notation,
                                          !.hasNew = hasNew, !.newNotation = newNotation,
                                          !.mode = IF overwrite THEN "overwrite" ELSE "keep",
                                          !.pre = src, !.post = r.src, !.orig = r.src,
                                          !.dest = target, !.destPost = r.dest,
                                          !.isSource = isSource, !.err = r.err])
                   /\ UNCHANGED <<isArr, strict, preserveIndices, A, B>>

\* extract(notation, newNotation): copyTo a new object, which is given back.
Extract ==
    /\ Len(hist) < MaxSteps
    /\ Moves < MaxMoves
    /\ \E notation \in Paths, hasNew \in BOOLEAN :
           \E newNotation \in IF hasNew THEN NewPaths ELSE {<<>>} :
               \E r \in {copyTo(src, Map(<<>>), FALSE, notation, hasNew, newNotation,
                                 TRUE)} :
                   /\ src' = r.src
                   /\ Record([Call EXCEPT !.op = "extract", !.notation = notation,
                                          !.hasNew = hasNew, !.newNotation = newNotation,
                                          !.pre = src, !.post = r.src, !.orig = r.src,
                                          !.dest = Map(<<>>), !.destPost = r.dest,
                                          !.out = r.dest, !.err = r.err])
                   /\ UNCHANGED <<isArr, strict, preserveIndices, A, B>>

\* extrude(notation, newNotation): moveTo a new object, which is given back.
Extrude ==
    /\ Len(hist) < MaxSteps
    /\ Moves < MaxMoves
    /\ \E notation \in Paths, hasNew \in BOOLEAN :
           \E newNotation \in IF hasNew THEN NewPaths ELSE {<<>>} :
               \E r \in {moveTo(src, preserveIndices, Map(<<>>), FALSE, notation, hasNew,
                                 newNotation, TRUE)} :
                   /\ src' = r.src
                   /\ Record([Call EXCEPT !.op = "extrude", !.notation = notation,
                                          !.hasNew = hasNew, !.newNotation = newNotation,
                                          !.pre = src, !.post = r.src, !.orig = r.src,
                                          !.dest = Map(<<>>), !.destPost = r.dest,
                                          !.out = r.dest, !.err = r.err])
                   /\ UNCHANGED <<isArr, strict, preserveIndices, A, B>>

\* rename, with and without a new notation and an overwrite flag.
Rename ==
    /\ Len(hist) < MaxSteps
    /\ Moves < MaxMoves
    /\ \E notation \in Paths, hasNew \in BOOLEAN, mode \in {"", "overwrite", "keep"} :
           \E newNotation \in IF hasNew THEN NewPaths ELSE {<<>>} :
               \E r \in {rename(src, preserveIndices, notation, hasNew, newNotation,
                                 mode # "", mode = "overwrite")} :
                   /\ src' = r.src
                   /\ Record([Call EXCEPT !.op = "rename", !.notation = notation,
                                          !.hasNew = hasNew, !.newNotation = newNotation,
                                          !.mode = mode, !.pre = src, !.post = r.src,
                                          !.orig = r.src, !.dest = src,
                                          !.destPost = r.dest, !.err = r.err])
                   /\ UNCHANGED <<isArr, strict, preserveIndices, A, B>>

\* filter with the lists it answers without a walk: nothing, everything
\* negated, everything.
FilterAll ==
    \E globList \in {<<>>, <<Glob(TRUE, noteStar)>>, <<Glob(FALSE, noteStar)>>} :
        FilterWith(globList)

\* ------------------------------------------------------- specifications

Next ==
    \/ Set \/ Get \/ Remove \/ InspectRemove \/ Flatten \/ Expand \/ FilterAll
    \/ Clone \/ SetOptions

Spec == (\E source \in Seeds : Construct(source)) /\ [][Next]_vars

\* set and get on one accessor.
InitSet == \E source \in Flat : Construct(source) /\ ~preserveIndices
NextSet == Set \/ Get
SpecSet == InitSet /\ [][NextSet]_vars

\* inspectGet and get, with and without a default value, on one accessor.
InitInspect == \E source \in Trees : Construct(source) /\ ~preserveIndices
NextInspect == InspectGet \/ GetOr \/ SetOptions
SpecInspect == InitInspect /\ [][NextInspect]_vars

\* each on one accessor.
InitEach == \E source \in Trees : Construct(source)
NextEach == Each
SpecEach == InitEach /\ [][NextEach]_vars

\* separate on one accessor.
InitSeparate == \E source \in Trees : Construct(source) /\ ~strict
NextSeparate == Separate
SpecSeparate == InitSeparate /\ [][NextSeparate]_vars

\* remove and inspectRemove on one accessor.
InitRemove == \E source \in Trees : Construct(source)
NextRemove == Remove \/ InspectRemove \/ SetOptions
SpecRemove == InitRemove /\ [][NextRemove]_vars

\* flatten and expand on one accessor.
InitFlat == \E source \in Trees : Construct(source) /\ ~strict /\ ~preserveIndices
NextFlat == Flatten \/ Expand
SpecFlat == InitFlat /\ [][NextFlat]_vars

\* The static functions of NotationGlob on two lists of globs.
InitGlob ==
    /\ A \in GlobLists
    /\ B \in GlobLists
    /\ src = Map(<<>>)
    /\ isArr = FALSE
    /\ strict = FALSE
    /\ preserveIndices = FALSE
    /\ hist = <<>>
NextGlob == Normalize \/ Union
SpecGlob == InitGlob /\ [][NextGlob]_vars

\* normalize on the list of its documented example and on one more list.
InitExample ==
    /\ A \in GlobLists
    /\ B = DocExample
    /\ src = Map(<<>>)
    /\ isArr = FALSE
    /\ strict = FALSE
    /\ preserveIndices = FALSE
    /\ hist = <<>>
NextExample == Normalize
SpecExample == InitExample /\ [][NextExample]_vars

\* covers on pairs of globs.
InitCovers ==
    /\ A = <<>>
    /\ B = <<>>
    /\ src = Map(<<>>)
    /\ isArr = FALSE
    /\ strict = FALSE
    /\ preserveIndices = FALSE
    /\ hist = <<>>
NextCovers == Covers
SpecCovers == InitCovers /\ [][NextCovers]_vars

\* compare on pairs of globs.
SpecCompare == InitCovers /\ [][Compare]_vars

\* merge on one accessor.
SpecMerge == InitInspect /\ [][Merge]_vars

\* moveTo, moveFrom and rename on one accessor.
NextMove == MoveTo \/ MoveFrom \/ Rename \/ CopyTo \/ CopyFrom \/ Extract \/ Extrude
SpecMove == InitInspect /\ [][NextMove]_vars

\* filter on one accessor.
InitFilter == \E source \in Trees : Construct(source) /\ ~preserveIndices
NextFilter == Filter \/ SetOptions
SpecFilter == InitFilter /\ [][NextFilter]_vars

\* filter on a strict accessor over a tree with several leaves below one
\* ancestor.
InitDeep == \E source \in DeepTrees : Construct(source) /\ strict /\ ~preserveIndices
NextDeep == FilterOnce \/ SetOptions
SpecDeep == InitDeep /\ [][NextDeep]_vars

\* -------------------------------------------------------------- claims

\* Two calls in a row: call n + 1 was made right after call n.
InARow(n, opA, opB) ==
    /\ n + 1 <= Len(hist)
    /\ hist[n].op = opA
    /\ hist[n + 1].op = opB

\* C1: whenever set(p, v) in overwrite mode does not fail with InvalidSyntax
\* or TypeMismatch, a get(p) issued right after it returns exactly v.
C1_SetThenGet ==
    \A n \in 1..Len(hist) :
        (/\ InARow(n, "set", "get")
         /\ hist[n].mode = "overwrite"
         /\ hist[n].err \notin {"InvalidSyntax", "TypeMismatch"}
         /\ hist[n + 1].notation = hist[n].notation)
            => (hist[n + 1].err = "none" /\ hist[n + 1].out = hist[n].value)

\* The second of two removals of one notation in a row, both made in
\* non-strict mode.
SecondRemove(n) ==
    /\ n + 1 <= Len(hist)
    /\ ~hist[n].strict /\ ~hist[n + 1].strict
    /\ hist[n].op = "remove"
    /\ hist[n + 1].op \in {"remove", "inspectRemove"}
    /\ hist[n + 1].notation = hist[n].notation

LastNote(notation) == notation[Len(notation)]

\* C2 as stated: in non-strict mode, after one remove(p) a second remove(p)
\* leaves the tree unchanged and inspectRemove(p) reports has:false, for a
\* map key and for a list index, with preserveIndices false or true.
C2_Original ==
    \A n \in 1..Len(hist) :
        SecondRemove(n) =>
            /\ hist[n + 1].post = hist[n + 1].pre
            /\ hist[n + 1].op = "inspectRemove" => ~hist[n + 1].has

\* C2 as amended: in non-strict mode, after one remove(p) a second remove(p)
\* or inspectRemove(p) leaves the tree unchanged and the inspectRemove
\* reports has:false, when the last Note of p is a key, or an index with
\* preserveIndices on (at both calls).
C2_RemoveTwice ==
    \A n \in 1..Len(hist) :
        (/\ SecondRemove(n)
         /\ \/ LastNote(hist[n].notation).t = "key"
            \/ hist[n].preserveIndices /\ hist[n + 1].preserveIndices)
            => /\ hist[n + 1].post = hist[n + 1].pre
               /\ hist[n + 1].op = "inspectRemove" => ~hist[n + 1].has

\* C2 witness: with preserveIndices on, a remove took an item out of a list
\* that has a later item, and an inspectRemove of the same index followed.
C2_Witness ==
    /\ SecondRemove(1)
    /\ hist[1].preserveIndices /\ hist[2].preserveIndices
    /\ hist[2].op = "inspectRemove"
    /\ LastNote(hist[1].notation) = IdxTok(0)
    /\ hist[1].post # hist[1].pre
    /\ hist[1].pre.k = "list" /\ Len(hist[1].pre.e) > 1

RECURSIVE NoEmptyInside(_)
\* No map or list nested in the tree is empty.
NoEmptyInside(t) ==
    IF ~isCollection(t) THEN TRUE
    ELSE \A n \in 1..Len(t.e) :
             LET child == IF t.k = "map" THEN t.e[n].val ELSE t.e[n]
             IN  (isCollection(child) => child.e # <<>>) /\ NoEmptyInside(child)

RECURSIVE PlainKeys(_)
\* Every map key in the tree is one plain identifier that is not reserved,
\* and no list has an empty slot.
PlainKeys(t) ==
    CASE t.k = "map" ->
           \A n \in 1..Len(t.e) :
               /\ Len(t.e[n].key) = 1
               /\ t.e[n].key[1].t = "key"
               /\ ~isReservedKey(t.e[n].key)
               /\ PlainKeys(t.e[n].val)
      [] t.k = "list" -> \A n \in 1..Len(t.e) : PlainKeys(t.e[n])
      [] OTHER -> t.k # "hole"

\* C3 as stated: flatten() and then expand() leave a source structurally
\* equal to the tree the accessor held, for map-rooted and list-rooted trees
\* and whether or not nested maps and lists are empty.
C3_Original ==
    \A n \in 1..Len(hist) :
        InARow(n, "flatten", "expand") =>
            (hist[n + 1].err = "none" /\ TreeEq(hist[n + 1].post, hist[n].pre))

\* C3 as amended: flatten() and then expand() leave a source structurally
\* equal to the tree the accessor held when that tree is map-rooted, its map
\* keys are plain identifiers that are not reserved, its lists have no empty
\* slot, and no map or list nested in it is empty.
C3_RoundTrip ==
    \A n \in 1..Len(hist) :
        (/\ InARow(n, "flatten", "expand")
         /\ hist[n].pre.k = "map"
         /\ PlainKeys(hist[n].pre)
         /\ NoEmptyInside(hist[n].pre))
            => (hist[n + 1].err = "none" /\ TreeEq(hist[n + 1].post, hist[n].pre))

\* C3 witness: the round trip was made on a map that holds a list of two
\* items beside a leaf, and flatten did give a map of three notations.
C3_Witness ==
    /\ InARow(1, "flatten", "expand")
    /\ hist[1].pre.k = "map"
    /\ PlainKeys(hist[1].pre)
    /\ NoEmptyInside(hist[1].pre)
    /\ \E n \in 1..Len(hist[1].pre.e) :
           hist[1].pre.e[n].val.k = "list" /\ Len(hist[1].pre.e[n].val.e) = 2
    /\ Len(hist[1].post.e) = 3

\* C4: normalizing the list a normalize gave back gives the same patterns in
\* the same order.
C4_Idempotent ==
    \A n \in 1..Len(hist) :
        (InARow(n, "normalize", "normalize") /\ hist[n + 1].globs = hist[n].outGlobs)
            => hist[n + 1].outGlobs = hist[n].outGlobs

\* One list is a permutation of the other.
IsPermutation(S, T) ==
    /\ Len(S) = Len(T)
    /\ \E f \in [1..Len(S) -> 1..Len(S)] :
           /\ \A i, j \in 1..Len(S) : f[i] = f[j] => i = j
           /\ \A i \in 1..Len(S) : T[i] = S[f[i]]

\* C5: normalize gives the same list for a list and for any permutation of
\* it.
C5_Unordered ==
    \A n, m \in 1..Len(hist) :
        (/\ hist[n].op = "normalize"
         /\ hist[m].op = "normalize"
         /\ IsPermutation(hist[n].globs, hist[m].globs))
            => hist[n].outGlobs = hist[m].outGlobs

RECURSIVE lastCovering(_, _, _)
\* The place of the last pattern of a list that covers a path; 0 for none.
lastCovering(list, path, n) ==
    IF n = 0 THEN 0
    ELSE IF covers(list[n], Glob(FALSE, path)) THEN n
    ELSE lastCovering(list, path, n - 1)

\* A pattern list selects a path when the last pattern of its normalized
\* form (which is in compare order) that covers the path is positive.
Selects(list, path) ==
    LET normalized == normalize(list)
        n == lastCovering(normalized, path, Len(normalized))
    IN  n > 0 /\ ~normalized[n].neg

\* C6: union(A, B) selects a path if and only if A selects it or B selects
\* it.
C6_UnionSelects ==
    \A n \in 1..Len(hist) :
        hist[n].op = "union" =>
            \A path \in Paths :
                Selects(hist[n].outGlobs, path)
                    <=> (Selects(hist[n].globs, path) \/ Selects(hist[n].globsB, path))

\* C7: normalize(union(A, B)) equals normalize(union(B, A)).
C7_UnionCommutes ==
    \A n, m \in 1..Len(hist) :
        (/\ hist[n].op = "union"
         /\ hist[m].op = "union"
         /\ hist[m].globs = hist[n].globsB
         /\ hist[m].globsB = hist[n].globs)
            => normalize(hist[n].outGlobs) = normalize(hist[m].outGlobs)

\* C8: filter does not modify the tree that was the accessor's source before
\* the call, nor any of its subtrees.
C8_SourceUntouched ==
    \A n \in 1..Len(hist) : hist[n].op = "filter" => hist[n].orig = hist[n].pre

\* The result of a filter holds a leaf of the source with its source value.
Holds(result, leaf) ==
    LET found == inspectGet(result, leaf.notation)
    IN  found.has /\ found.value = leaf.value

\* The error kinds the accessor declares.
DeclaredErrors ==
    {"InvalidSource", "InvalidDestination", "InvalidSyntax", "MissingIndex", "MissingProperty",
     "InsertOnNonList", "TypeMismatch", "IntegrityError", "InvalidNotationsObject"}

RECURSIVE lastFilterCovering(_, _, _)
\* The place of the last pattern of a list that covers a path in filter; 0
\* for none.  The bare wildcard ("*" or "[*]") stands for the whole source
\* in filter, whatever the kind of the root, and counts as covering every
\* path.
lastFilterCovering(list, path, n) ==
    IF n = 0 THEN 0
    ELSE IF reWILDCARD(list[n]) \/ covers(list[n], Glob(FALSE, path)) THEN n
    ELSE lastFilterCovering(list, path, n - 1)

\* The last pattern of the normalized list that covers the path (or a prefix
\* of it: a pattern covers what lies below the paths it matches) is positive.
FilterSelects(list, path) ==
    LET normalized == normalize(list)
        n == lastFilterCovering(normalized, path, Len(normalized))
    IN  n > 0 /\ ~normalized[n].neg

\* C9: when the normalized pattern list is not empty, the result of filter
\* holds a leaf of the source, with its value, if and only if the last
\* pattern of the normalized list that covers the leaf's path or a prefix of
\* it is positive.  (A call that ends with a declared error kind has no
\* result and is left out.)
C9_LastCoveringWins ==
    \A n \in 1..Len(hist) :
        (/\ hist[n].op = "filter"
         /\ normalize(hist[n].globs) # <<>>
         /\ hist[n].err \notin DeclaredErrors) =>
            /\ hist[n].err = "none"
            /\ \A m \in 1..Len(_each(hist[n].pre, FALSE)) :
                   LET leaf == _each(hist[n].pre, FALSE)[m]
                   IN  Holds(hist[n].post, leaf)
                           <=> FilterSelects(hist[n].globs, leaf.notation)

\* C10: filter([]) and filter(["!*"]) replace the source with an empty
\* container of the kind of the source held at the time of the call.
C10_EmptyOfSourceKind ==
    \A n \in 1..Len(hist) :
        (hist[n].op = "filter" /\ hist[n].globs \in {<<>>, <<Glob(TRUE, noteStar)>>}) =>
            hist[n].post = IF hist[n].pre.k = "list" THEN List(<<>>) ELSE Map(<<>>)

\* C11 as stated: a negated pattern never covers a pattern or path that has
\* more Notes than itself.
C11_Original ==
    \A n \in 1..Len(hist) :
        (/\ hist[n].op = "covers"
         /\ hist[n].globs[1].neg
         /\ Len(hist[n].globsB[1].notes) > Len(hist[n].globs[1].notes))
            => ~hist[n].has

\* C11 as amended: a negated pattern never covers a pattern or path that has
\* fewer Notes than itself, the Notes counted as covers reads them (a
\* pattern given as a string is read without its trailing wildcard Notes).
C11_NegatedNotShallower ==
    \A n \in 1..Len(hist) :
        (/\ hist[n].op = "covers"
         /\ hist[n].globs[1].neg
         /\ Len(notesOf(hist[n].globsB[1], hist[n].asString))
                < Len(notesOf(hist[n].globs[1], hist[n].asString)))
            => ~hist[n].has

\* C11 witness: covers was asked whether the inspection result of "!a.*"
\* covers that of "a", whose one Note the Notes of "!a.*" cover one by one.
C11_Witness ==
    /\ Len(hist) > 0
    /\ hist[1].op = "covers"
    /\ ~hist[1].asString
    /\ hist[1].globs = <<Glob(TRUE, noteA \o noteStar)>>
    /\ hist[1].globsB = <<Glob(FALSE, noteA)>>
    /\ ~hist[1].has

\* C12: every pattern, negated or not and with or without a trailing
\* wildcard Note, covers its own absolute form.
C12_Reflexive ==
    \A n \in 1..Len(hist) :
        (/\ hist[n].op = "covers"
         /\ hist[n].asString
         /\ hist[n].globsB = <<Glob(FALSE, hist[n].globs[1].notes)>>)
            => hist[n].has

\* C12 witness: a negated pattern with a trailing wildcard Note was asked
\* whether it covers its absolute form, and it does.
C12_Witness ==
    /\ Len(hist) > 0
    /\ hist[1].op = "covers"
    /\ hist[1].asString
    /\ hist[1].globs = <<Glob(TRUE, noteA \o noteStar)>>
    /\ hist[1].globsB = <<Glob(FALSE, noteA \o noteStar)>>
    /\ hist[1].has

\* C13: the list normalize gives holds no positive pattern covered by a
\* different positive pattern of the list, and no pattern covered by a
\* different negated pattern of the list.
C13_NoRedundancy ==
    \A n \in 1..Len(hist) :
        hist[n].op = "normalize" =>
            \A i, j \in 1..Len(hist[n].outGlobs) :
                LET x == hist[n].outGlobs[i]
                    y == hist[n].outGlobs[j]
                IN  (x # y /\ (y.neg \/ ~x.neg)) => ~covers(y, x)

\* C14: normalize(["*", "!id", "name", "car.model", "!car.*", "id", "name",
\* "age"]) returns exactly ["*", "!car.*", "!id"].
C14_DocExample ==
    \A n \in 1..Len(hist) :
        (hist[n].op = "normalize" /\ hist[n].globs = DocExample) =>
            hist[n].outGlobs = <<Glob(FALSE, noteStar), Glob(TRUE, <<KeyTok("car"), StarTok>>),
                                 Glob(TRUE, <<KeyTok("id")>>)>>

\* The container that directly holds the last Note of a notation.
HolderOf(tree, notation) ==
    IF Len(notation) = 1 THEN tree ELSE Walk(tree, Parent(notation), 1).value

\* C15: when inspectGet(p) resolves p fully, its parentIsArray is true if
\* and only if the container that directly holds the last Note of p is a
\* list.
C15_ParentIsArray ==
    \A n \in 1..Len(hist) :
        (hist[n].op = "inspectGet" /\ hist[n].has) =>
            (hist[n].parentIsArray <=> HolderOf(hist[n].pre, hist[n].notation).k = "list")

\* C16: a get of an absent path with no default on a strict accessor fails,
\* with MissingIndex when resolution stopped at a list and MissingProperty
\* when it stopped at a map; with a default, or with strict off, it returns
\* the default (undefined when there is none); a get of a present path
\* returns the resolved value.
C16_GetMissing ==
    \A n \in 1..Len(hist) :
        hist[n].op = "get" =>
            LET w == Walk(hist[n].pre, hist[n].notation, 1)
            IN  IF w.has THEN hist[n].err = "none" /\ hist[n].out = w.value
                ELSE IF hist[n].strict /\ ~hist[n].hasDefault
                THEN /\ hist[n].err \in {"MissingIndex", "MissingProperty"}
                     /\ w.stop.k = "list" => hist[n].err = "MissingIndex"
                     /\ w.stop.k = "map" => hist[n].err = "MissingProperty"
                ELSE /\ hist[n].err = "none"
                     /\ hist[n].out = IF hist[n].hasDefault THEN hist[n].value ELSE Undef

\* C16 witness: on a strict accessor over a map a get with no default
\* stopped at a list nested in the map and failed with MissingIndex.
C16_Witness ==
    /\ Len(hist) = 1
    /\ hist[1].strict
    /\ hist[1].op = "get" /\ ~hist[1].hasDefault
    /\ hist[1].pre.k = "map"
    /\ Walk(hist[1].pre, hist[1].notation, 1).stop.k = "list"
    /\ hist[1].err = "MissingIndex"

\* C17: inspectRemove(p) of a present list entry at index i makes the list
\* one shorter with every later entry one index down when preserveIndices
\* is off, and leaves its length and every other index as they were, with a
\* hole at i for which has(p) is false, when preserveIndices is on; of a
\* present map member it takes away that key only.  In each case the result
\* reports has:true with the removed value.
C17_RemoveEntry ==
    \A n \in 1..Len(hist) :
        (hist[n].op = "inspectRemove" /\ hist[n].err = "none"
             /\ has(hist[n].pre, hist[n].notation)) =>
            LET p == hist[n].notation
                nn == normalizeNote(LastNote(p))
                before == HolderOf(hist[n].pre, p)
                after == HolderOf(hist[n].post, p)
            IN  /\ hist[n].has
                /\ hist[n].out = Member(before, nn)
                /\ after.k = before.k
                /\ IF before.k = "map"
                   THEN after.e = RemoveAt(before.e, KeyPos(before.e, nn.s))
                   ELSE IF ~hist[n].preserveIndices
                   THEN after.e = RemoveAt(before.e, nn.n + 1)
                   ELSE /\ Len(after.e) = Len(before.e)
                        /\ \A j \in 1..Len(before.e) :
                               j # nn.n + 1 => after.e[j] = before.e[j]
                        /\ after.e[nn.n + 1] = Hole
                        /\ ~has(hist[n].post, p)

\* C17 witness: with preserveIndices on, inspectRemove took the first of two
\* items out of a list, which keeps its length and holds nothing at index 0.
C17_Witness ==
    /\ Len(hist) = 1
    /\ hist[1].op = "inspectRemove" /\ hist[1].preserveIndices
    /\ hist[1].notation = idx0
    /\ hist[1].pre.k = "list" /\ Len(hist[1].pre.e) = 2
    /\ hist[1].has /\ hist[1].out = hist[1].pre.e[1]
    /\ hist[1].post = List(<<Hole, hist[1].pre.e[2]>>)
    /\ ~has(hist[1].post, idx0)

\* C18: once the visitor of each has returned the stop signal for a leaf, it
\* is not invoked again during that call: the leaf it stopped at is the last
\* one it was invoked with.
C18_StopsWalk ==
    \A n \in 1..Len(hist) :
        (hist[n].op = "each" /\ hist[n].notation # <<>>) =>
            hist[n].visited[Len(hist[n].visited)] = hist[n].notation

\* A notation made of keys only: no list lies on its way.
KeysOnly(notation) == \A n \in 1..Len(notation) : notation[n].t = "key"

\* Notation p is q or lies below q.
IsUnder(p, q) == Len(q) <= Len(p) /\ SubSeq(p, 1, Len(q)) = q

\* C19: separate(paths) removes every listed path from the tree that was the
\* source, leaves every unlisted member of it in place, and gives a tree that
\* holds exactly the removed values at their paths.  (Read for paths and
\* members that no list lies on the way to, where removal shifts nothing; a
\* listed path is held to its value when no other listed path lies on,
\* above or below it; a call that ends with a declared error kind is left
\* out.)
C19_Separate ==
    \A n \in 1..Len(hist) :
        (hist[n].op = "separate" /\ hist[n].err \notin DeclaredErrors) =>
            LET paths == hist[n].paths
                before == _each(hist[n].pre, FALSE)
                given == _each(hist[n].post, FALSE)
            IN  /\ hist[n].err = "none"
                /\ \A i \in 1..Len(paths) : KeysOnly(paths[i]) => ~has(hist[n].orig, paths[i])
                /\ \A m \in 1..Len(before) :
                       (/\ KeysOnly(before[m].notation)
                        /\ \A i \in 1..Len(paths) : ~IsUnder(before[m].notation, paths[i]))
                           => Holds(hist[n].orig, before[m])
                /\ \A i \in 1..Len(paths) :
                       (/\ KeysOnly(paths[i])
                        /\ has(hist[n].pre, paths[i])
                        /\ \A j \in 1..Len(paths) :
                               j # i => (~IsUnder(paths[i], paths[j])
                                            /\ ~IsUnder(paths[j], paths[i])))
                           => /\ has(hist[n].post, paths[i])
                              /\ Walk(hist[n].post, paths[i], 1).value
                                     = Walk(hist[n].pre, paths[i], 1).value
                /\ \A m \in 1..Len(given) :
                       \E i \in 1..Len(paths) :
                           has(hist[n].pre, paths[i]) /\ IsUnder(given[m].notation, paths[i])

\* C20: set fails with TypeMismatch whenever a Note of the path disagrees in
\* kind with the existing container it is applied to: a key applied to a
\* list, or an index applied to a map.
C20_TypeMismatch ==
    \A n \in 1..Len(hist) :
        hist[n].op = "set" =>
            \A m \in 1..Len(hist[n].notation) :
                LET p == SubSeq(hist[n].notation, 1, m)
                    holder == HolderOf(hist[n].pre, p)
                IN  (/\ m > 1 => has(hist[n].pre, Parent(p))
                     /\ \/ holder.k = "list" /\ p[m].t = "key"
                        \/ holder.k = "map" /\ p[m].t = "idx")
                        => hist[n].err = "TypeMismatch"

\* Whether a value occurs anywhere in a tree.
RECURSIVE Occurs(_, _)
Occurs(v, t) ==
    \/ t = v
    \/ t.k = "map" /\ \E n \in 1..Len(t.e) : Occurs(v, t.e[n].val)
    \/ t.k = "list" /\ \E n \in 1..Len(t.e) : Occurs(v, t.e[n])

\* What C21 says of the calls of set in insert mode; with onlyEntries, of an
\* index of the list that holds an entry.
InsertsAt(onlyEntries) ==
    \A n \in 1..Len(hist) :
        (/\ hist[n].op = "set"
         /\ hist[n].mode = "insert")
            => LET p == hist[n].notation
                   i == normalizeNote(LastNote(p))
                   before == HolderOf(hist[n].pre, p)
                   after == HolderOf(hist[n].post, p)
                   reached == Len(p) > 1 => has(hist[n].pre, Parent(p))
               IN  /\ (/\ reached /\ before.k = "list" /\ i.num /\ i.n < Len(before.e)
                       /\ onlyEntries => before.e[i.n + 1] # Hole)
                          => /\ hist[n].err = "none"
                             /\ after.k = "list"
                             /\ Len(after.e) = Len(before.e) + 1
                             /\ after.e[i.n + 1] = hist[n].value
                             /\ \A j \in 1..Len(before.e) :
                                    after.e[IF j > i.n THEN j + 1 ELSE j] = before.e[j]
                   /\ (reached /\ before.k # "list")
                          => /\ hist[n].err = "InsertOnNonList"
                             /\ hist[n].post = hist[n].pre
                   /\ (/\ hist[n].err = "InsertOnNonList"
                       /\ hist[n].value.k = "num"
                       /\ ~Occurs(hist[n].value, hist[n].pre))
                          => ~Occurs(hist[n].value, hist[n].post)

\* C21 as stated: set(p, v, "insert") whose last Note is an index i of an
\* existing list of length n with i < n yields a list of length n + 1 with v
\* at i and every entry formerly at j >= i now at j + 1 (those below i stay);
\* when the container of the last Note is not a list, it fails with
\* InsertOnNonList and does not write v anywhere.
C21_Original == InsertsAt(FALSE)

\* C21 as amended: the same, for an index i at which the list holds an entry.
C21_Insert == InsertsAt(TRUE)

\* An insert at index 0 of a list that holds two entries, and after it an
\* insert below the scalar that it put there.
C21_Witness ==
    /\ Len(hist) = 2
    /\ hist[1].op = "set" /\ hist[1].mode = "insert" /\ hist[1].notation = idx0
    /\ hist[1].pre.k = "list" /\ Len(hist[1].pre.e) = 2
    /\ hist[1].value = Num(3) /\ hist[1].err = "none"
    /\ hist[2].op = "set" /\ hist[2].mode = "insert" /\ hist[2].notation = idx0 \o noteA
    /\ hist[2].value = Num(3) /\ hist[2].err = "InsertOnNonList"

\* The number of wildcard Notes of a glob.
WildNotes(notes) == Cardinality({n \in 1..Len(notes) : isWildTok(notes[n])})

\* Whether the order key of glob a (number of Notes ascending, number of
\* wildcard Notes descending, positive before negated, lexicographic on the
\* absolute form) is smaller than that of glob b; the globs are read as
\* compare reads them, without the trailing wildcards of a positive glob.
KeyLess(a, b) ==
    LET x == _inspect(a)
        y == _inspect(b)
    IN  \/ Len(x.notes) < Len(y.notes)
        \/ /\ Len(x.notes) = Len(y.notes)
           /\ \/ WildNotes(x.notes) > WildNotes(y.notes)
              \/ /\ WildNotes(x.notes) = WildNotes(y.notes)
                 /\ \/ ~x.neg /\ y.neg
                    \/ x.neg = y.neg /\ LexLess(Chars(x.notes), Chars(y.notes))

\* C22: compare(a, b) returns -1 exactly when the order key of a is smaller
\* than that of b, 1 when it is larger, and 0 when the keys are equal, and
\* compare(a, b) = -compare(b, a).
C22_CompareKey ==
    \A n \in 1..Len(hist) :
        hist[n].op = "compare" =>
            LET a == hist[n].globs[1]
                b == hist[n].globsB[1]
            IN  /\ hist[n].order = (IF KeyLess(a, b) THEN -1 ELSE IF KeyLess(b, a) THEN 1 ELSE 0)
                /\ \A m \in 1..Len(hist) :
                       (hist[m].op = "compare" /\ hist[m].globs[1] = b /\ hist[m].globsB[1] = a)
                           => hist[n].order = -hist[m].order

\* Whether a Note of a key is one of the reserved names.
HasReservedNote(notation) ==
    \E n \in 1..Len(notation) :
        notation[n].t = "key" /\ notation[n].k \in {"__proto__", "prototype", "constructor"}

RECURSIVE SetEach(_, _, _, _)
\* set(key, value, mode) for every entry, from entry n on, that has no
\* reserved Note.
SetEach(level, entries, n, mode) ==
    IF n > Len(entries) THEN level
    ELSE SetEach(IF HasReservedNote(entries[n].key) THEN level
                 ELSE set(level, entries[n].key, entries[n].val, mode).t,
                 entries, n + 1, mode)

\* C23: a merge that ends without an error has applied set(key, value,
\* overwrite) for every own key of the input none of whose Notes is a
\* reserved name and has skipped exactly the keys that have such a Note; with
\* overwrite false a key of the input that was present in the source as a
\* path, and that no other key of the input lies below, keeps its value.
C23_Merge ==
    \A n \in 1..Len(hist) :
        (hist[n].op = "merge" /\ hist[n].err = "none") =>
            /\ hist[n].post = SetEach(hist[n].pre, hist[n].value.e, 1, hist[n].mode)
            /\ hist[n].mode = "keep" =>
                   \A i \in 1..Len(hist[n].value.e) :
                       LET p == hist[n].value.e[i].key
                       IN  (/\ has(hist[n].pre, p)
                            /\ \A j \in 1..Len(hist[n].value.e) :
                                   j # i => ~IsUnder(hist[n].value.e[j].key, p))
                               => /\ has(hist[n].post, p)
                                  /\ Walk(hist[n].post, p, 1).value
                                         = Walk(hist[n].pre, p, 1).value

\* C24: rename(p) with no new notation, for a present p (its parent a map or
\* a list, preserveIndices false), leaves the source unmodified: the source
\* after the call equals the source before it, the order of keys aside.
C24_RenameUnset ==
    \A n \in 1..Len(hist) :
        (/\ hist[n].op = "rename"
         /\ ~hist[n].hasNew
         /\ ~hist[n].preserveIndices
         /\ has(hist[n].pre, hist[n].notation))
            => TreeEq(hist[n].post, hist[n].pre)

\* C29: a move of a present path p to a new path q that ends without an
\* error, with overwrite true or false, leaves the value that was at p
\* either at q in the destination or at p in the tree it was taken from.
C29_MoveKeeps ==
    \A n \in 1..Len(hist) :
        LET p == hist[n].notation
            q == hist[n].newNotation
            taken == IF hist[n].op = "moveFrom" THEN hist[n].dest ELSE hist[n].pre
            left == IF hist[n].op = "moveFrom" THEN hist[n].destPost ELSE hist[n].post
            given == IF hist[n].op = "moveFrom" THEN hist[n].post ELSE hist[n].destPost
        IN  (/\ hist[n].op \in {"moveTo", "moveFrom", "rename"}
             /\ hist[n].hasNew
             /\ hist[n].err = "none"
             /\ isCollection(taken)
             /\ has(taken, p))
                => \/ has(given, q) /\ Walk(given, q, 1).value = Walk(taken, p, 1).value
                   \/ has(left, p) /\ Walk(left, p, 1).value = Walk(taken, p, 1).value

\* C25: filter raises IntegrityError only on a strict accessor: in
\* non-strict mode no filter call ends in IntegrityError, also when a negated
\* pattern with a trailing wildcard names a target that holds a value of
\* another kind than the container the wildcard expects.
C25_IntegrityStrictOnly ==
    \A n \in 1..Len(hist) :
        (hist[n].op = "filter" /\ ~hist[n].strict) => hist[n].err # "IntegrityError"

\* C28: filter never fabricates members: in non-strict mode every path
\* present in the result of a filter that ends without an error is present
\* in the source.
C28_NoFabrication ==
    \A n \in 1..Len(hist) :
        (hist[n].op = "filter" /\ ~hist[n].strict /\ hist[n].err = "none") =>
            \A p \in Paths : has(hist[n].post, p) => has(hist[n].pre, p)

\* The members of a container other than the one a note names.
Others(coll, nn) ==
    IF coll.k = "list"
    THEN {<<i, coll.e[i]>> : i \in {j \in 1..Len(coll.e) : ~(nn.num /\ j = nn.n + 1)}}
    ELSE {<<coll.e[i].key, coll.e[i].val>> :
              i \in {j \in 1..Len(coll.e) : coll.e[j].key # PropKey(nn)}}

\* level[nCurrentNote] as it is read: the member under the property key of
\* the note, undefined when there is none.
Held(coll, nn) ==
    IF coll.k = "list"
    THEN IF nn.num /\ nn.n < Len(coll.e) THEN Read(coll.e[nn.n + 1]) ELSE Undef
    ELSE IF coll.k = "map" /\ KeyPos(coll.e, PropKey(nn)) > 0
    THEN coll.e[KeyPos(coll.e, PropKey(nn))].val
    ELSE Undef

\* What the tree holds at a notation, undefined when it holds nothing there.
RECURSIVE HeldAt(_, _, _)
HeldAt(level, notes, n) ==
    IF n > Len(notes) THEN level
    ELSE HeldAt(Held(level, normalizeNote(notes[n])), notes, n + 1)

\* C26: when set walks a path, an intermediate Note at which the tree held no
\* container and holds one afterwards holds a list if the next Note
\* normalizes to a number and a map otherwise; an intermediate container that
\* existed is never replaced: it is still there, of the same kind, and (the
\* mode being overwrite or keep) with every member but the one the path goes
\* through as it was.
C26_Intermediates ==
    \A n \in 1..Len(hist) :
        hist[n].op = "set" =>
            \A m \in 1..(Len(hist[n].notation) - 1) :
                LET q == SubSeq(hist[n].notation, 1, m)
                    next == normalizeNote(hist[n].notation[m + 1])
                    before == HeldAt(hist[n].pre, q, 1)
                    after == HeldAt(hist[n].post, q, 1)
                IN  /\ (~isCollection(before) /\ isCollection(after))
                           => after.k = (IF next.num THEN "list" ELSE "map")
                    /\ isCollection(before)
                           => /\ after.k = before.k
                              /\ hist[n].mode # "insert"
                                     => Others(after, next) = Others(before, next)

\* C27: after any sequence of operations on an accessor, its isArrayRoot flag
\* (this._isArray) is true if and only if its current source is a list.
C27_IsArrayRoot == isArr <=> (src.k = "list")

\* C30: on a strict accessor no filter call ends in MissingProperty or
\* MissingIndex, also when a negated pattern with a wildcard matches an
\* ancestor of several source leaves, which the first of them removes.
C30_NoMissing ==
    \A n \in 1..Len(hist) :
        (hist[n].op = "filter" /\ hist[n].strict) =>
            hist[n].err \notin {"MissingProperty", "MissingIndex"}

\* filter(["*", "!*.b"]) on the strict accessor of {a: {b: {a: 1, b: 2}}}: a.b
\* is removed for the leaf a.b.b and is gone when the leaf a.b.a is processed.
C30_Witness ==
    /\ Len(hist) = 1
    /\ hist[1].strict
    /\ hist[1].op = "filter"
    /\ hist[1].globs = <<Glob(FALSE, noteStar), Glob(TRUE, noteStar \o noteB)>>
    /\ hist[1].pre = Map(<<Entry(noteA, Map(<<Entry(noteB,
                               Map(<<Entry(noteA, Num(1)), Entry(noteB, Num(2))>>))>>))>>)
    /\ hist[1].err = "none"
    /\ hist[1].post = Map(<<Entry(noteA, Map(<<>>))>>)
====
